---- MODULE Spec2Model ----
(***************************************************************************)
(* tcpez: a length-prefixed request/response TCP library.                  *)
(*                                                                         *)
(* The model works at the level of bytes on the wire.  A connection is a   *)
(* pair of byte queues (client to server, server to client) with an open   *)
(* or closed end on each side.  The server is the accept loop of           *)
(* Server.Start, one reader goroutine (Server.handle) per accepted         *)
(* connection, one goroutine per sub-request of a batch, and Server.Close. *)
(* The client is the connection pool, Client.SendRecv and the Pipeline.    *)
(*                                                                         *)
(* A Go panic ends the whole process; it is recorded in `crashed`.         *)
(***************************************************************************)
EXTENDS Integers, Sequences, FiniteSets, TLC

\* ------------------------------------------------------------------ bounds
\* Connections that may be dialed in one behaviour.
MaxConns == 2
\* Chunks a raw peer may write to the one connection of SpecReader.
MaxPeerWrites == 4
\* Chunks the raw peers may write, over all connections, in SpecServer.
MaxLifeWrites == 1
\* Calls of Server.Close in one behaviour.
MaxCloseCalls == 2

Conns == 1..MaxConns
\* Payload bytes used by the peers.  The handler of the model answers a
\* payload that starts with byte 2 with an error.
PayloadBytes == {1, 2}

MinInt32 == -2147483647 - 1

\* ------------------------------------------------------- int32, big endian
\* binary.Write(w, binary.BigEndian, int32(n)): the four bytes of n in two's
\* complement, most significant first.
Enc32(n) ==
  IF n >= 0
  THEN << n \div 16777216, (n \div 65536) % 256, (n \div 256) % 256, n % 256 >>
  ELSE LET m == -(n + 1)
       IN << 255 - (m \div 16777216), 255 - ((m \div 65536) % 256),
             255 - ((m \div 256) % 256), 255 - (m % 256) >>

\* binary.Read(r, binary.BigEndian, &size) with size an int32.
Dec32(bs) ==
  IF bs[1] < 128
  THEN bs[1] * 16777216 + bs[2] * 65536 + bs[3] * 256 + bs[4]
  ELSE -((255 - bs[1]) * 16777216 + (255 - bs[2]) * 65536
         + (255 - bs[3]) * 256 + (255 - bs[4])) - 1

\* -x on an int32: the most negative value negates to itself.
Neg32(x) == IF x = MinInt32 THEN MinInt32 ELSE -x

Take(s, n) == SubSeq(s, 1, n)
Drop(s, n) == SubSeq(s, n + 1, Len(s))

\* One length-prefixed frame: writeDataWithLength.
Frame(data) == Enc32(Len(data)) \o data

VARIABLES
  \* ---- the network
  nextConn,     \* connections dialed so far
  c2s,          \* c2s[c]: bytes sent by the client end, not yet read by the server
  s2c,          \* s2c[c]: bytes sent by the server end, not yet read by the client
  cliEnd,       \* cliEnd[c]: "none" | "open" | "closed" | "reset"
  srvEnd,       \* srvEnd[c]: "none" | "open" | "closed"
  backlog,      \* connections established and not yet accepted, in order
  \* ---- Server
  handler,      \* "echo": the EchoHandler; "faulty": errors on payloads starting with 2
  listening,    \* the listener s.Conn is open
  isClosed,     \* s.isClosed
  connId,       \* s.connId
  clientConns,  \* s.clientConns: id -> connection
  startPc,      \* Server.Start: "check" | "accept" | "exited"
  h,            \* h[id]: the goroutine of Server.handle(conn, id)
  closePc,      \* Server.Close in progress: "idle" | "set" | "iter"
  closeSnap,    \* the ids in the map when Close began to range over it
  closeCalls,   \* Close calls that have returned, with their results
  opFailure,    \* Stats.Increment("operation.failure") calls
  opSuccess,    \* Stats.Increment("operation.success") calls
  crashed,      \* a goroutine panicked: the process is gone
  span,         \* a Span and the calls made on it
  \* ---- the raw peer
  peerWrites,   \* chunks written so far
  \* ---- ConnectionPool, Client, Pipeline
  addresses,    \* p.Addresses: 1 is the address of the server, nothing listens at 2
  conns,        \* p.conns: the idle connections, in order
  mutex,        \* the pool's sync.Mutex: 0, or the task that holds it
  np,           \* the call of NewConnectionPool
  cl,           \* cl[t]: the client task t and the call it is in
  cdl,          \* cdl[c]: the deadline set on the client end of c
  pbuf,         \* Pipeline.buf
  pcount,       \* Pipeline.count
  pmutex,       \* the Pipeline's sync.Mutex: 0, or the task that holds it
  ops           \* client calls begun so far

wireVars == << c2s, s2c, cliEnd, srvEnd >>
netVars == << nextConn, wireVars, backlog >>
lifeVars == << listening, isClosed >>
closeVars == << closePc, closeSnap, closeCalls >>
statVars == << opFailure, opSuccess >>
srvVars == << handler, lifeVars, connId, clientConns, startPc, h, closeVars,
              statVars, crashed, span >>
poolVars == << addresses, conns, mutex, np >>
pipeVars == << pbuf, pcount, pmutex >>
cliVars == << poolVars, cl, cdl, pipeVars, ops >>
peerVars == << peerWrites, cliVars >>
vars == << netVars, srvVars, peerVars >>

\* ------------------------------------------------------------ the handler
\* RequestHandler.Respond.  The EchoHandler returns its input; the faulty
\* handler returns (nil, err) for a payload that starts with byte 2, the way
\* ProtoServer.Respond returns (nil, err) for a request it cannot parse.
Respond(req) ==
  IF handler = "faulty" /\ req # << >> /\ Head(req) = 2
  THEN [res |-> << >>, err |-> "handler"]
  ELSE [res |-> req, err |-> "nil"]

\* closableError: a net.Error is closable iff it is a timeout; otherwise
\* io.EOF, io.ErrClosedPipe and io.ErrUnexpectedEOF are.
IsNetError(e) == e \in {"timeout", "closed", "reset", "EPIPE"}
closableError(e) ==
  IF IsNetError(e) THEN e = "timeout"
  ELSE e \in {"EOF", "ErrClosedPipe", "UnexpectedEOF"}

\* ---------------------------------------------------- Server.handleRequest
\* The span of one handleRequest call: its attributes, the calls made on it
\* in the order they were made ("Respond" is the call of the handler, which
\* is given the span), and the request the handler was given.
SpanOf(request, multi, calls) ==
  [attrs |-> IF multi THEN {<< "multi", "true" >>} ELSE {},
   calls |-> calls, request |-> request]

\* A handleRequest that records the span before it calls the handler.
handleRequestRecordsFirst(request, multi) ==
  LET out == Respond(request)
  IN [response |-> out.res, err |-> out.err,
      span |-> SpanOf(request, multi,
                 << "NewSpan", "Start duration", "Add num_connections",
                    "Record", "Respond", "Finish duration", "JSON" >>)]

\* handleRequest(request, multi): span := NewSpan(id); the attribute multi
\* when multi; span.Start("duration"); span.Add("num_connections", ...);
\* s.Handler.Respond(request, span); span.Finish("duration");
\* log.Info(span.JSON()); span.Record(); return response, err.
handleRequest(request, multi) ==
  LET out == Respond(request)
  IN [response |-> out.res, err |-> out.err,
      span |-> SpanOf(request, multi,
                 << "NewSpan", "Start duration", "Add num_connections",
                    "Respond", "Finish duration", "JSON", "Record" >>)]


\* ------------------------------------------------------- reads and writes
\* The error of a read of n bytes by the server end of connection c; "nil"
\* when the bytes are there, "block" when the read has to wait.  `expired`:
\* the read deadline of the connection has passed.
SrvReadErr(c, n, expired) ==
  IF n = 0 THEN "nil"
  ELSE IF srvEnd[c] = "closed" THEN "closed"
  ELSE IF expired THEN "timeout"
  ELSE IF Len(c2s[c]) >= n THEN "nil"
  ELSE IF cliEnd[c] = "reset" THEN "reset"
  ELSE IF cliEnd[c] = "closed"
       THEN (IF Len(c2s[c]) = 0 THEN "EOF" ELSE "UnexpectedEOF")
  ELSE "block"

\* The same, with a blocked read ended by the deadline when `to` is chosen.
SrvRead(c, n, expired, to) ==
  LET e == SrvReadErr(c, n, expired)
  IN IF e = "block" THEN (IF to THEN "timeout" ELSE "block")
     ELSE (IF to THEN "block" ELSE e)

\* What is left to read after a read of n bytes that ended with e: a short
\* read has consumed the bytes that were there.
SrvRest(c, n, e, expired) ==
  IF e = "nil" THEN Drop(c2s[c], n)
  ELSE IF e = "UnexpectedEOF" \/ (e = "timeout" /\ ~expired) THEN << >>
  ELSE c2s[c]

\* The error of a write by the server end of c.  A write to a connection
\* the peer has closed may still be accepted by the kernel (`lost`), or fail.
SrvWriteErrs(c) ==
  IF srvEnd[c] = "closed" THEN {"closed"}
  ELSE IF cliEnd[c] = "open" THEN {"nil"}
  ELSE {"lost", "EPIPE"}

\* ------------------------------------------------------------------ Init
\* The record of a reader.  skipped: the reader has, since it began, left a
\* sub-request of a batch without a worker because its read failed.
\* spans[k]: the spans of the handleRequest calls made so far for request k
\* of the request the reader is at (k = 1 for a single request).
HNone ==
  [pc |-> "none", conn |-> 0, size |-> 0, count |-> 0, r |-> 0, psize |-> 0,
   requests |-> << >>, responses |-> << >>, wstate |-> << >>,
   header |-> 0, response |-> << >>, err |-> "nil", expired |-> FALSE,
   skipped |-> FALSE, spans |-> << >>]

\* ------------------------------------------------------------------ Span
\* The counter names and the deltas the callers of a span use.
CounterNames == {"test", "test2"}
Deltas == {-1, 5}
\* Calls of Increment and Add on one span.
MaxSpanCalls == 4

\* NewSpan(id): no counter.  ret is the result of the last call, lastOp and
\* lastName say which call it was, calls counts the calls; incs[n] and
\* adds[n] count the Increment and Add calls on n, addSum[n] is the sum of
\* the deltas of the Add calls on n.
NewSpan ==
  [Counters |-> << >>, ret |-> 0, lastOp |-> "", lastName |-> "", calls |-> 0,
   incs |-> [n \in CounterNames |-> 0],
   adds |-> [n \in CounterNames |-> 0],
   addSum |-> [n \in CounterNames |-> 0]]

\* The value of counter name in the map C, 0 for a name that is absent.
CounterValue(C, name) == IF name \in DOMAIN C THEN C[name] ELSE 0

\* A map in which every call leaves the counter at delta.
CountersSet(C, name, delta) ==
  [n \in DOMAIN C \cup {name} |-> IF n = name THEN delta ELSE C[n]]

\* The map after delta has been added to counter name, which is created at
\* delta when absent.
CountersAdd(C, name, delta) ==
  [n \in DOMAIN C \cup {name} |->
     IF n = name THEN CounterValue(C, name) + delta ELSE C[n]]

\* span.Add(name, delta): returns the new value.
Add(name, delta) ==
  /\ span.calls < MaxSpanCalls
  /\ LET C == CountersAdd(span.Counters, name, delta)
     IN span' = [span EXCEPT !.Counters = C, !.ret = C[name],
                             !.lastOp = "Add", !.lastName = name,
                             !.calls = @ + 1,
                             !.adds[name] = @ + 1,
                             !.addSum[name] = @ + delta]
  /\ UNCHANGED << netVars, handler, lifeVars, connId, clientConns, startPc, h,
                  closeVars, statVars, crashed, peerVars >>

\* span.Increment(name): add 1, return the new value.
Increment(name) ==
  /\ span.calls < MaxSpanCalls
  /\ LET C == CountersAdd(span.Counters, name, 1)
     IN span' = [span EXCEPT !.Counters = C, !.ret = C[name],
                             !.lastOp = "Increment", !.lastName = name,
                             !.calls = @ + 1,
                             !.incs[name] = @ + 1]
  /\ UNCHANGED << netVars, handler, lifeVars, connId, clientConns, startPc, h,
                  closeVars, statVars, crashed, peerVars >>

\* One task calls Increment and Add on one span.
NextSpan ==
  \/ \E name \in CounterNames : Increment(name)
  \/ \E name \in CounterNames, delta \in Deltas : Add(name, delta)

\* NewServer, followed by `go s.Start()`.
InitServer ==
  /\ handler \in {"echo", "faulty"}
  /\ listening = TRUE
  /\ isClosed = FALSE
  /\ connId = 0
  /\ clientConns = << >>
  /\ startPc = "check"
  /\ h = [id \in Conns |-> HNone]
  /\ closePc = "idle"
  /\ closeSnap = {}
  /\ closeCalls = << >>
  /\ opFailure = 0
  /\ opSuccess = 0
  /\ crashed = FALSE
  /\ span = NewSpan

\* The server after Close() with no connection open: the listener is closed
\* and Start has returned.
InitServerDown ==
  /\ handler \in {"echo", "faulty"}
  /\ listening = FALSE
  /\ isClosed = TRUE
  /\ connId = 0
  /\ clientConns = << >>
  /\ startPc = "exited"
  /\ h = [id \in Conns |-> HNone]
  /\ closePc = "idle"
  /\ closeSnap = {}
  /\ closeCalls = << >>
  /\ opFailure = 0
  /\ opSuccess = 0
  /\ crashed = FALSE
  /\ span = NewSpan

InitNet ==
  /\ nextConn = 0
  /\ c2s = [c \in Conns |-> << >>]
  /\ s2c = [c \in Conns |-> << >>]
  /\ cliEnd = [c \in Conns |-> "none"]
  /\ srvEnd = [c \in Conns |-> "none"]
  /\ backlog = << >>

\* ---------------------------------------------------------- Server.Start
\* `if s.isClosed == true { break }`
StartCheck ==
  /\ ~crashed
  /\ startPc = "check"
  /\ startPc' = IF isClosed THEN "exited" ELSE "accept"
  /\ UNCHANGED << netVars, handler, span, lifeVars, connId, clientConns, h, closeVars,
                  statVars, crashed, peerVars >>

\* s.Conn.Accept() returns a connection: s.connId++; go s.handle(conn, s.connId)
StartAccept ==
  /\ ~crashed
  /\ startPc = "accept"
  /\ listening
  /\ backlog # << >>
  /\ connId' = connId + 1
  /\ h' = [h EXCEPT ![connId + 1] =
             [HNone EXCEPT !.pc = "insert", !.conn = Head(backlog)]]
  /\ backlog' = Tail(backlog)
  /\ startPc' = "check"
  /\ UNCHANGED << nextConn, wireVars, handler, span, lifeVars, clientConns, closeVars,
                  statVars, crashed, peerVars >>

\* s.Conn.Accept() fails because the listener is closed: break
StartAcceptErr ==
  /\ ~crashed
  /\ startPc = "accept"
  /\ ~listening
  /\ startPc' = "exited"
  /\ UNCHANGED << netVars, handler, span, lifeVars, connId, clientConns, h, closeVars,
                  statVars, crashed, peerVars >>

\* --------------------------------------------------------- Server.handle
\* What handle does with a non-nil err of readHeaderAndHandleRequest or of
\* sendResponse: break (and then close and delete) on a closable error,
\* otherwise Stats.Increment("operation.failure") and return.
HandleErr(id, rec, e) ==
  /\ h' = [h EXCEPT ![id] =
             [rec EXCEPT !.err = e,
                         !.pc = IF closableError(e) THEN "close" ELSE "returned"]]
  /\ opFailure' = IF closableError(e) THEN opFailure ELSE opFailure + 1
  /\ UNCHANGED opSuccess

\* s.clientConns[id] = clientConn
HInsert(id) ==
  /\ ~crashed
  /\ h[id].pc = "insert"
  /\ clientConns' = [i \in DOMAIN clientConns \cup {id} |->
                       IF i = id THEN h[id].conn ELSE clientConns[i]]
  /\ h' = [h EXCEPT ![id].pc = "read"]
  /\ UNCHANGED << netVars, handler, span, lifeVars, connId, startPc, closeVars,
                  statVars, crashed, peerVars >>

\* clientConn.SetReadDeadline(now + 5 min); binary.Read(buf, BigEndian, &size).
\* A negative size is a batch: count := -size, and the two slices are made.
HReadHeader(id) ==
  /\ ~crashed
  /\ h[id].pc = "read"
  /\ \E to \in BOOLEAN :
       LET c == h[id].conn
           e == SrvRead(c, 4, FALSE, to)
           size == Dec32(Take(c2s[c], 4))
           count == Neg32(size)
           rec == [h[id] EXCEPT !.expired = (e = "timeout")]
       IN /\ e # "block"
          /\ c2s' = [c2s EXCEPT ![c] = SrvRest(c, 4, e, FALSE)]
          /\ IF e # "nil"
             THEN HandleErr(id, rec, e) /\ UNCHANGED crashed
             ELSE IF size < 0 /\ count < 0
             THEN \* make([][]byte, count) with a negative count panics
                  crashed' = TRUE /\ UNCHANGED << h, statVars >>
             ELSE /\ h' = [h EXCEPT ![id] =
                      IF size < 0
                      THEN [rec EXCEPT !.size = size, !.count = count, !.r = 0,
                              !.requests = [i \in 1..count |-> << >>],
                              !.responses = [i \in 1..count |-> << >>],
                              !.wstate = [i \in 1..count |-> "none"],
                              !.spans = [i \in 1..count |-> << >>],
                              !.pc = "sub_size"]
                      ELSE [rec EXCEPT !.size = size, !.psize = size,
                              !.pc = IF size = 0 THEN "parse_size" ELSE "parse_body"]]
                  /\ UNCHANGED << statVars, crashed >>
  /\ UNCHANGED << nextConn, s2c, cliEnd, srvEnd, backlog, handler, span, lifeVars,
                  connId, clientConns, startPc, closeVars, peerVars >>

\* The batch loop `for r := 0; int32(r) < count; r++` after sub-request r
\* (0-based) has been dealt with.
NextSub(rec) ==
  IF rec.r + 1 < rec.count
  THEN [rec EXCEPT !.r = rec.r + 1, !.pc = "sub_size"]
  ELSE [rec EXCEPT !.r = rec.r + 1, !.pc = "wait"]

\* parseRequest(buf, 0) for sub-request r of a batch: read the int32 length.
\* On an error the loop goes on to the next r (`if err == nil { ... }`).
HSubSize(id) ==
  /\ ~crashed
  /\ h[id].pc = "sub_size"
  /\ \E to \in BOOLEAN :
       LET c == h[id].conn
           e == SrvRead(c, 4, h[id].expired, to)
           psize == Dec32(Take(c2s[c], 4))
           rec == [h[id] EXCEPT !.expired = (h[id].expired \/ e = "timeout")]
       IN /\ e # "block"
          /\ c2s' = [c2s EXCEPT ![c] = SrvRest(c, 4, e, h[id].expired)]
          /\ IF e # "nil"
             THEN /\ h' = [h EXCEPT ![id] = NextSub([rec EXCEPT !.skipped = TRUE])]
                  /\ UNCHANGED crashed
             ELSE IF psize < 0
             THEN \* make([]byte, size) with a negative size panics
                  crashed' = TRUE /\ UNCHANGED h
             ELSE /\ h' = [h EXCEPT ![id] = [rec EXCEPT !.psize = psize, !.pc = "sub_body"]]
                  /\ UNCHANGED crashed
  /\ UNCHANGED << nextConn, s2c, cliEnd, srvEnd, backlog, handler, span, lifeVars,
                  connId, clientConns, startPc, closeVars, statVars, peerVars >>

\* parseRequest for sub-request r: io.ReadFull(buf, request).  On success
\* requests[r] = request; wg.Add(1); go func(index) {...}(r).
HSubBody(id) ==
  /\ ~crashed
  /\ h[id].pc = "sub_body"
  /\ \E to \in BOOLEAN :
       LET c == h[id].conn
           n == h[id].psize
           e == IF n = 0 THEN (IF to THEN "block" ELSE "nil")
                ELSE SrvRead(c, n, h[id].expired, to)
           rec == [h[id] EXCEPT !.expired = (h[id].expired \/ e = "timeout")]
           k == h[id].r + 1
       IN /\ e # "block"
          /\ c2s' = [c2s EXCEPT ![c] = SrvRest(c, n, e, h[id].expired)]
          /\ h' = [h EXCEPT ![id] =
                IF e = "nil"
                THEN NextSub([rec EXCEPT !.requests[k] = Take(c2s[c], n),
                                         !.wstate[k] = "running"])
                ELSE NextSub([rec EXCEPT !.skipped = TRUE])]
  /\ UNCHANGED << nextConn, s2c, cliEnd, srvEnd, backlog, handler, span, lifeVars,
                  connId, clientConns, startPc, closeVars, statVars, crashed,
                  peerVars >>

\* The goroutine of sub-request k: res, err := s.handleRequest(requests[index],
\* true); if err == nil { responses[index] = res }; wg.Done().
Worker(id, k) ==
  /\ ~crashed
  /\ k \in DOMAIN h[id].wstate
  /\ h[id].wstate[k] = "running"
  /\ LET out == handleRequest(h[id].requests[k], TRUE)
     IN h' = [h EXCEPT ![id].wstate[k] = "done",
                       ![id].spans[k] = Append(@, out.span),
                       ![id].responses[k] =
                          IF out.err = "nil" THEN out.response
                          ELSE h[id].responses[k]]
  /\ UNCHANGED << netVars, handler, span, lifeVars, connId, clientConns, startPc,
                  closeVars, statVars, crashed, peerVars >>

\* BatchOutput with the slots of failed sub-requests left out.
RECURSIVE BatchOutputSkipMissing(_)
BatchOutputSkipMissing(responses) ==
  IF responses = << >> THEN << >>
  ELSE (IF Head(responses) = << >> THEN << >> ELSE Frame(Head(responses)))
         \o BatchOutputSkipMissing(Tail(responses))

\* BatchOutput with the responses in the reverse of the request order.
RECURSIVE BatchOutputReversed(_)
BatchOutputReversed(responses) ==
  IF responses = << >> THEN << >>
  ELSE BatchOutputReversed(Tail(responses)) \o Frame(Head(responses))

\* BatchOutput that ends at the first slot without a response.
RECURSIVE BatchOutputUntilMissing(_)
BatchOutputUntilMissing(responses) ==
  IF responses = << >> \/ Head(responses) = << >> THEN << >>
  ELSE Frame(Head(responses)) \o BatchOutputUntilMissing(Tail(responses))

\* The bytes of the batch response body: each responses[j] with its length.
RECURSIVE BatchOutput(_)
BatchOutput(responses) ==
  IF responses = << >> THEN << >>
  ELSE Frame(Head(responses)) \o BatchOutput(Tail(responses))

\* A batch whose output is built without wg.Wait().
HWaitNoBarrier(id) ==
  /\ ~crashed
  /\ h[id].pc = "wait"
  /\ h' = [h EXCEPT ![id].header = Neg32(h[id].count),
                    ![id].response = BatchOutput(h[id].responses),
                    ![id].pc = "send_header"]
  /\ UNCHANGED << netVars, handler, span, lifeVars, connId, clientConns, startPc,
                  closeVars, statVars, crashed, peerVars >>

\* wg.Wait() returns; the output buffer is filled in request order;
\* return int32(-count), output.Bytes(), err
HWait(id) ==
  /\ ~crashed
  /\ h[id].pc = "wait"
  /\ \A k \in DOMAIN h[id].wstate : h[id].wstate[k] # "running"
  /\ h' = [h EXCEPT ![id].header = Neg32(h[id].count),
                    ![id].response = BatchOutput(h[id].responses),
                    ![id].pc = "send_header"]
  /\ UNCHANGED << netVars, handler, span, lifeVars, connId, clientConns, startPc,
                  closeVars, statVars, crashed, peerVars >>

\* parseRequest(buf, size) for a single request whose header is 0: the
\* `if size == int32(0)` branch reads another int32 from the connection.
HParseSize(id) ==
  /\ ~crashed
  /\ h[id].pc = "parse_size"
  /\ \E to \in BOOLEAN :
       LET c == h[id].conn
           e == SrvRead(c, 4, h[id].expired, to)
           psize == Dec32(Take(c2s[c], 4))
       IN /\ e # "block"
          /\ c2s' = [c2s EXCEPT ![c] = SrvRest(c, 4, e, h[id].expired)]
          /\ IF e # "nil"
             THEN HandleErr(id, h[id], e) /\ UNCHANGED crashed
             ELSE IF psize < 0
             THEN crashed' = TRUE /\ UNCHANGED << h, statVars >>
             ELSE /\ h' = [h EXCEPT ![id].psize = psize, ![id].pc = "parse_body"]
                  /\ UNCHANGED << statVars, crashed >>
  /\ UNCHANGED << nextConn, s2c, cliEnd, srvEnd, backlog, handler, span, lifeVars,
                  connId, clientConns, startPc, closeVars, peerVars >>

\* parseRequest for a single request: io.ReadFull(buf, request), and then
\* response, err := s.handleRequest(request, false) in the same goroutine.
HParseBody(id) ==
  /\ ~crashed
  /\ h[id].pc = "parse_body"
  /\ \E to \in BOOLEAN :
       LET c == h[id].conn
           n == h[id].psize
           e == IF n = 0 THEN (IF to THEN "block" ELSE "nil")
                ELSE SrvRead(c, n, h[id].expired, to)
           out == handleRequest(Take(c2s[c], n), FALSE)
       IN /\ e # "block"
          /\ c2s' = [c2s EXCEPT ![c] = SrvRest(c, n, e, h[id].expired)]
          /\ IF e # "nil" THEN HandleErr(id, h[id], e)
             ELSE IF out.err # "nil"
             THEN HandleErr(id, [h[id] EXCEPT !.requests = << Take(c2s[c], n) >>,
                                              !.spans = << << out.span >> >>],
                            out.err)
             ELSE /\ h' = [h EXCEPT ![id].requests = << Take(c2s[c], n) >>,
                                    ![id].spans = << << out.span >> >>,
                                    ![id].header = Len(out.response),
                                    ![id].response = out.response,
                                    ![id].pc = "send_header"]
                  /\ UNCHANGED statVars
  /\ UNCHANGED << nextConn, s2c, cliEnd, srvEnd, backlog, handler, span, lifeVars,
                  connId, clientConns, startPc, closeVars, crashed, peerVars >>

\* A reader that goes back to reading a header once the header of its
\* response is written, before the data of the response.
HSendHeaderThenRead(id) ==
  /\ ~crashed
  /\ h[id].pc = "send_header"
  /\ \E e \in SrvWriteErrs(h[id].conn) :
       IF e \in {"nil", "lost"}
       THEN /\ s2c' = [s2c EXCEPT ![h[id].conn] =
                         IF e = "nil" THEN @ \o Enc32(h[id].header) ELSE @]
            /\ h' = [h EXCEPT ![id].pc = "read"]
            /\ UNCHANGED statVars
       ELSE HandleErr(id, h[id], e) /\ UNCHANGED s2c
  /\ UNCHANGED << nextConn, c2s, cliEnd, srvEnd, backlog, handler, span, lifeVars,
                  connId, clientConns, startPc, closeVars, crashed, peerVars >>

\* sendResponse: binary.Write(w, binary.BigEndian, header)
HSendHeader(id) ==
  /\ ~crashed
  /\ h[id].pc = "send_header"
  /\ \E e \in SrvWriteErrs(h[id].conn) :
       IF e \in {"nil", "lost"}
       THEN /\ s2c' = [s2c EXCEPT ![h[id].conn] =
                         IF e = "nil" THEN @ \o Enc32(h[id].header) ELSE @]
            /\ h' = [h EXCEPT ![id].pc = "send_data"]
            /\ UNCHANGED statVars
       ELSE HandleErr(id, h[id], e) /\ UNCHANGED s2c
  /\ UNCHANGED << nextConn, c2s, cliEnd, srvEnd, backlog, handler, span, lifeVars,
                  connId, clientConns, startPc, closeVars, crashed, peerVars >>

\* sendResponse: w.Write(data); on success Stats.Increment("operation.success")
\* and the loop of handle starts over.
HSendData(id) ==
  /\ ~crashed
  /\ h[id].pc = "send_data"
  /\ \E e \in SrvWriteErrs(h[id].conn) :
       IF e \in {"nil", "lost"}
       THEN /\ s2c' = [s2c EXCEPT ![h[id].conn] =
                         IF e = "nil" THEN @ \o h[id].response ELSE @]
            /\ h' = [h EXCEPT ![id] = [HNone EXCEPT !.pc = "read", !.conn = h[id].conn,
                                                       !.skipped = h[id].skipped]]
            /\ opSuccess' = opSuccess + 1
            /\ UNCHANGED opFailure
       ELSE HandleErr(id, h[id], e) /\ UNCHANGED s2c
  /\ UNCHANGED << nextConn, c2s, cliEnd, srvEnd, backlog, handler, span, lifeVars,
                  connId, clientConns, startPc, closeVars, crashed, peerVars >>

\* After the loop: clientConn.Close()
HClose(id) ==
  /\ ~crashed
  /\ h[id].pc = "close"
  /\ srvEnd' = [srvEnd EXCEPT ![h[id].conn] = "closed"]
  /\ h' = [h EXCEPT ![id].pc = "delete"]
  /\ UNCHANGED << nextConn, c2s, s2c, cliEnd, backlog, handler, span, lifeVars, connId,
                  clientConns, startPc, closeVars, statVars, crashed, peerVars >>

\* After the loop: delete(s.clientConns, id)
HDelete(id) ==
  /\ ~crashed
  /\ h[id].pc = "delete"
  /\ clientConns' = [i \in DOMAIN clientConns \ {id} |-> clientConns[i]]
  /\ h' = [h EXCEPT ![id].pc = "done"]
  /\ UNCHANGED << netVars, handler, span, lifeVars, connId, startPc, closeVars,
                  statVars, crashed, peerVars >>

\* ---------------------------------------------------------- Server.Close
\* A Close that leaves the listener open and relies on the isClosed flag.
CloseFlagOnly ==
  /\ ~crashed
  /\ closePc = "idle"
  /\ Len(closeCalls) < MaxCloseCalls
  /\ ~isClosed
  /\ closePc' = "set"
  /\ UNCHANGED << netVars, handler, span, lifeVars, connId, clientConns, startPc,
                  h, closeSnap, closeCalls, statVars, crashed, peerVars >>

\* Close on a server with isClosed == false: err = s.Conn.Close().  The
\* kernel drops the connections that were waiting to be accepted.
CloseListener ==
  /\ ~crashed
  /\ closePc = "idle"
  /\ Len(closeCalls) < MaxCloseCalls
  /\ ~isClosed
  /\ listening' = FALSE
  /\ srvEnd' = [c \in Conns |->
                  IF \E i \in DOMAIN backlog : backlog[i] = c THEN "closed" ELSE srvEnd[c]]
  /\ backlog' = << >>
  /\ closePc' = "set"
  /\ UNCHANGED << nextConn, c2s, s2c, cliEnd, handler, span, isClosed, connId,
                  clientConns, startPc, h, closeSnap, closeCalls, statVars,
                  crashed, peerVars >>

\* s.isClosed = true, and the range over s.clientConns begins.
CloseSet ==
  /\ ~crashed
  /\ closePc = "set"
  /\ isClosed' = TRUE
  /\ closeSnap' = DOMAIN clientConns
  /\ closePc' = "iter"
  /\ UNCHANGED << netVars, handler, span, listening, connId, clientConns, startPc, h,
                  closeCalls, statVars, crashed, peerVars >>

\* One iteration of `for id, conn := range s.clientConns`:
\* delete(s.clientConns, id); conn.Close().  An entry inserted while the
\* range is under way may be produced or skipped.
CloseIter ==
  /\ ~crashed
  /\ closePc = "iter"
  /\ \E id \in DOMAIN clientConns :
       /\ clientConns' = [i \in DOMAIN clientConns \ {id} |-> clientConns[i]]
       /\ srvEnd' = [srvEnd EXCEPT ![clientConns[id]] = "closed"]
  /\ UNCHANGED << nextConn, c2s, s2c, cliEnd, backlog, handler, span, lifeVars, connId,
                  startPc, h, closeVars, statVars, crashed, peerVars >>

\* The range is over: every entry it began with has been produced.  return
CloseReturn ==
  /\ ~crashed
  /\ closePc = "iter"
  /\ closeSnap \cap DOMAIN clientConns = {}
  /\ closePc' = "idle"
  /\ closeSnap' = {}
  /\ closeCalls' = Append(closeCalls, "nil")
  /\ UNCHANGED << netVars, handler, span, lifeVars, connId, clientConns, startPc, h,
                  statVars, crashed, peerVars >>

\* A Close that would return nil on a server with isClosed == true.
CloseAlreadyNil ==
  /\ ~crashed
  /\ closePc = "idle"
  /\ Len(closeCalls) < MaxCloseCalls
  /\ isClosed
  /\ closeCalls' = Append(closeCalls, "nil")
  /\ UNCHANGED << netVars, handler, span, lifeVars, connId, clientConns, startPc, h,
                  closePc, closeSnap, statVars, crashed, peerVars >>

\* Close on a server with isClosed == true:
\* return errors.New("Closing already closed Connection")
CloseAlready ==
  /\ ~crashed
  /\ closePc = "idle"
  /\ Len(closeCalls) < MaxCloseCalls
  /\ isClosed
  /\ closeCalls' = Append(closeCalls, "already closed")
  /\ UNCHANGED << netVars, handler, span, lifeVars, connId, clientConns, startPc, h,
                  closePc, closeSnap, statVars, crashed, peerVars >>

\* The tasks about to write s.clientConns, which no lock guards: the readers
\* at `s.clientConns[id] = clientConn` or at `delete(s.clientConns, id)`, and
\* Close (task 0) while its range has an entry to delete.
MapWriters ==
  {id \in Conns : h[id].pc \in {"insert", "delete"}}
    \cup (IF closePc = "iter" /\ DOMAIN clientConns # {} THEN {0} ELSE {})

\* Two goroutines write the map at once: beside the outcomes in which one
\* write comes after the other, the runtime may stop the process with
\* "fatal error: concurrent map writes".
MapRace ==
  /\ ~crashed
  /\ Cardinality(MapWriters) >= 2
  /\ crashed' = TRUE
  /\ UNCHANGED << netVars, handler, span, lifeVars, connId, clientConns, startPc,
                  h, closeVars, statVars, peerVars >>

\* TestEchoServerReconnect: once Close has returned nil and the goroutines of
\* the stopped server have ended, NewServer at the same address followed by
\* `go l.Start()`.  The new Server has an empty map, connId 0 and its own
\* counters.
Restart ==
  /\ ~crashed
  /\ closeCalls = << "nil" >>
  /\ closePc = "idle"
  /\ isClosed
  /\ startPc = "exited"
  /\ \A id \in Conns : h[id].pc \in {"none", "done", "returned"}
  /\ listening' = TRUE
  /\ isClosed' = FALSE
  /\ connId' = 0
  /\ clientConns' = << >>
  /\ startPc' = "check"
  /\ h' = [id \in Conns |-> HNone]
  /\ opFailure' = 0
  /\ opSuccess' = 0
  /\ UNCHANGED << netVars, handler, span, closeVars, crashed, peerVars >>

\* ------------------------------------------------------- the client side
\* Client tasks (goroutines that call into one Client).
MaxTasks == 2
\* The largest `initial` NewConnectionPool is called with.
MaxInitial == 3
\* Calls a client task may begin, over all tasks.
MaxOps == 3
\* The same, where the server may be closed under the client.
MaxDownOps == 1
\* Chunks the remote end of the client's connections may write.
MaxRemoteWrites == 2
\* The same as MaxOps, where the server is stopped and started again.
MaxRestartOps == 2
\* The same, where one goroutine calls SendRecv, Send and Flush and another
\* calls SendRecv.
MaxMixedOps == 4
Tasks == 1..MaxTasks

\* c.Retries, set by NewClient.
Retries == 3

\* The record of a client task.  dials, fails: the dials of the call and how
\* many of them failed; phase: what ServerPhase was when the call began;
\* failedDown: a SendRecv of the task that began while the server was stopped
\* has returned an error; announced: the count in the batch header the Flush
\* has written; readFails: the reads of sub-responses that have failed in the
\* Flush.
TIdle ==
  [pc |-> "idle", op |-> "none", tries |-> 0, conn |-> 0, err |-> "nil",
   req |-> << >>, res |-> << >>, rsize |-> 0, count |-> 0, i |-> 0,
   responses |-> << >>, dials |-> 0, fails |-> 0, phase |-> "first",
   failedDown |-> FALSE, announced |-> 0, readFails |-> 0, held |-> << >>]

NpNone == [pc |-> "none", initial |-> 0, i |-> 0, errs |-> << >>, err |-> "nil"]

\* No client exists.
InitNoClient ==
  /\ addresses = {1}
  /\ conns = << >>
  /\ mutex = 0
  /\ np = NpNone
  /\ cl = [t \in Tasks |-> TIdle]
  /\ cdl = [c \in Conns |-> "none"]
  /\ pbuf = << >>
  /\ pcount = 0
  /\ pmutex = 0
  /\ ops = 0

\* --------------------------------------------------------- ConnectionPool
\* Something listens at address a.
Reachable(a) == a = 1 /\ listening /\ ~crashed

\* The errors net.DialTimeout("tcp", address, p.Timeout) may return.
DialErrs(a) == IF Reachable(a) THEN {"nil"} ELSE {"refused", "timeout"}

\* What a dial that ends with e does to the network: a successful dial
\* establishes connection nextConn + 1, which waits to be accepted.
DialNet(e) ==
  IF e = "nil"
  THEN /\ nextConn < MaxConns
       /\ nextConn' = nextConn + 1
       /\ cliEnd' = [cliEnd EXCEPT ![nextConn + 1] = "open"]
       /\ srvEnd' = [srvEnd EXCEPT ![nextConn + 1] = "open"]
       /\ backlog' = Append(backlog, nextConn + 1)
       /\ UNCHANGED << c2s, s2c >>
  ELSE UNCHANGED netVars

\* NewConnectionPool, one iteration of `for i := 0; i < initial; i++`:
\* conn, err := p.dial(), to an address picked at random.
NewPoolDial ==
  /\ np.pc = "loop"
  /\ np.i < np.initial
  /\ \E a \in addresses : \E e \in DialErrs(a) :
       /\ DialNet(e)
       /\ conns' = IF e = "nil" THEN Append(conns, nextConn + 1) ELSE conns
       /\ np' = [np EXCEPT !.i = np.i + 1,
                           !.errs = IF e = "nil" THEN np.errs ELSE Append(np.errs, e)]
  /\ UNCHANGED << srvVars, peerWrites, addresses, mutex, cl, cdl, pipeVars, ops >>

\* NewConnectionPool after the loop:
\* `if len(p.conns) == 0 { return nil, errs[0] }; return p, nil`.
\* errs[0] on an empty errs is an index out of range: a panic.
NewPoolResult ==
  IF Len(conns) = 0
  THEN (IF Len(np.errs) = 0 THEN [pc |-> "panic", err |-> "nil"]
        ELSE [pc |-> "failed", err |-> np.errs[1]])
  ELSE [pc |-> "ok", err |-> "nil"]

NewPoolReturn ==
  /\ np.pc = "loop"
  /\ np.i = np.initial
  /\ np' = [np EXCEPT !.pc = NewPoolResult.pc, !.err = NewPoolResult.err]
  /\ UNCHANGED << netVars, srvVars, peerWrites, addresses, conns, mutex, cl, cdl,
                  pipeVars, ops >>

\* The pool exists and the process of the client has not panicked.
ClientAlive == np.pc = "ok" /\ \A t \in Tasks : cl[t].pc # "panic"

\* A lock that never waits.
CanLockUnguarded(t) == TRUE

\* p.Lock() can go through.
CanLock(t) == mutex = 0

\* Take: p.Lock()
TakeLock(t) ==
  /\ ClientAlive
  /\ cl[t].pc = "take_lock"
  /\ CanLock(t)
  /\ mutex' = t
  /\ cl' = [cl EXCEPT ![t].pc = "take_locked"]
  /\ UNCHANGED << netVars, srvVars, peerWrites, addresses, conns, np, cdl,
                  pipeVars, ops >>

\* Take: `if len(p.conns) > 0 { c = p.conns[0]` ... `} else {`
TakeBranch(t) ==
  /\ ClientAlive
  /\ cl[t].pc = "take_locked"
  /\ cl' = [cl EXCEPT ![t].pc = IF Len(conns) > 0 THEN "take_shift" ELSE "take_dial",
                      ![t].conn = IF Len(conns) > 0 THEN conns[1] ELSE 0]
  /\ UNCHANGED << netVars, srvVars, peerWrites, poolVars, cdl, pipeVars, ops >>

\* Take: p.conns = p.conns[1:len(p.conns)]; return c, nil (and p.Unlock()).
\* The slice expression panics on an empty p.conns.
TakeShift(t) ==
  /\ ClientAlive
  /\ cl[t].pc = "take_shift"
  /\ IF Len(conns) = 0
     THEN cl' = [cl EXCEPT ![t].pc = "panic"] /\ UNCHANGED conns
     ELSE /\ conns' = Tail(conns)
          /\ cl' = [cl EXCEPT ![t].pc = "took", ![t].err = "nil"]
  /\ mutex' = 0
  /\ UNCHANGED << netVars, srvVars, peerWrites, addresses, np, cdl, pipeVars, ops >>

\* Take: return p.dial() (and p.Unlock()); the mutex is held during the dial.
TakeDial(t) ==
  /\ ClientAlive
  /\ cl[t].pc = "take_dial"
  /\ \E a \in addresses : \E e \in DialErrs(a) :
       /\ DialNet(e)
       /\ cl' = [cl EXCEPT ![t].pc = "took", ![t].err = e,
                           ![t].dials = @ + 1,
                           ![t].fails = IF e = "nil" THEN @ ELSE @ + 1,
                           ![t].conn = IF e = "nil" THEN nextConn + 1 ELSE 0]
  /\ mutex' = 0
  /\ UNCHANGED << srvVars, peerWrites, addresses, conns, np, cdl, pipeVars, ops >>

\* Return: p.Lock()
ReturnLock(t) ==
  /\ ClientAlive
  /\ cl[t].pc = "ret_lock"
  /\ CanLock(t)
  /\ mutex' = t
  /\ cl' = [cl EXCEPT ![t].pc = "ret_locked"]
  /\ UNCHANGED << netVars, srvVars, peerWrites, addresses, conns, np, cdl,
                  pipeVars, ops >>

\* Return: p.conns = append(p.conns, c) (and p.Unlock())
ReturnAppend(t) ==
  /\ ClientAlive
  /\ cl[t].pc = "ret_locked"
  /\ conns' = Append(conns, cl[t].conn)
  /\ mutex' = 0
  /\ cl' = [cl EXCEPT ![t].pc = "returned"]
  /\ UNCHANGED << netVars, srvVars, peerWrites, addresses, np, cdl, pipeVars, ops >>

PoolStep(t) ==
  \/ TakeLock(t) \/ TakeBranch(t) \/ TakeShift(t) \/ TakeDial(t)
  \/ ReturnLock(t) \/ ReturnAppend(t)

\* ------------------------------------------------ callers of the pool
\* A caller begins p.Take().
CallTake(t) ==
  /\ ClientAlive
  /\ cl[t].pc = "idle"
  /\ ops < MaxOps
  /\ ops' = ops + 1
  /\ cl' = [cl EXCEPT ![t].pc = "take_lock", ![t].op = "take"]
  /\ UNCHANGED << netVars, srvVars, peerWrites, poolVars, cdl, pipeVars >>

\* p.Take() returned (c, err): the caller keeps c when err is nil.
AfterTake(t) ==
  /\ ClientAlive
  /\ cl[t].op = "take"
  /\ cl[t].pc = "took"
  /\ cl' = [cl EXCEPT ![t].pc = "idle", ![t].op = "none", ![t].conn = 0,
                      ![t].held = IF cl[t].err = "nil"
                                  THEN Append(cl[t].held, cl[t].conn)
                                  ELSE cl[t].held]
  /\ UNCHANGED << netVars, srvVars, peerWrites, poolVars, cdl, pipeVars, ops >>

\* A caller begins p.Return(c) with the connection it took first.
CallReturn(t) ==
  /\ ClientAlive
  /\ cl[t].pc = "idle"
  /\ Len(cl[t].held) > 0
  /\ cl' = [cl EXCEPT ![t].pc = "ret_lock", ![t].op = "return",
                      ![t].conn = Head(cl[t].held),
                      ![t].held = Tail(cl[t].held)]
  /\ UNCHANGED << netVars, srvVars, peerWrites, poolVars, cdl, pipeVars, ops >>

\* p.Return(c) returned.
AfterReturn(t) ==
  /\ ClientAlive
  /\ cl[t].op = "return"
  /\ cl[t].pc = "returned"
  /\ cl' = [cl EXCEPT ![t].pc = "idle", ![t].op = "none", ![t].conn = 0]
  /\ UNCHANGED << netVars, srvVars, peerWrites, poolVars, cdl, pipeVars, ops >>

CallerStep(t) == CallTake(t) \/ AfterTake(t) \/ CallReturn(t) \/ AfterReturn(t)

\* NewConnectionPool(addresses, initial, timeout) has been called; the server
\* may be listening or not.
InitNewPool ==
  /\ addresses \in {{1}, {2}, {1, 2}}
  /\ conns = << >>
  /\ mutex = 0
  /\ np \in {[pc |-> "loop", initial |-> n, i |-> 0, errs |-> << >>, err |-> "nil"] :
               n \in 0..MaxInitial}
  /\ cl = [t \in Tasks |-> TIdle]
  /\ cdl = [c \in Conns |-> "none"]
  /\ pbuf = << >>
  /\ pcount = 0
  /\ pmutex = 0
  /\ ops = 0

InitPool ==
  /\ InitNet
  /\ (InitServer \/ InitServerDown)
  /\ handler = "echo"
  /\ peerWrites = 0
  /\ InitNewPool

\* Construction of a pool, then tasks that take and return concurrently.
NextPool ==
  \/ NewPoolDial
  \/ NewPoolReturn
  \/ \E t \in Tasks : PoolStep(t) \/ CallerStep(t)

SpecPool == InitPool /\ [][NextPool]_vars

\* ------------------------------------------- reads and writes, client
\* The server end of connection c is gone.
SrvGone(c) == crashed \/ srvEnd[c] = "closed"

\* The errors of a write of data by the client end of connection c.  "lost":
\* the write succeeds though nobody will read the bytes.
CliWriteErrs(c, data) ==
  IF cdl[c] = "expired" THEN {"timeout"}
  ELSE IF Len(data) = 0 THEN {"nil"}
  ELSE IF SrvGone(c) THEN {"lost", "EPIPE", "reset"}
  ELSE {"nil"}

\* The errors of a read of n bytes by the client end of connection c; the
\* empty set when the read blocks.
CliReadErrs(c, n) ==
  IF n = 0 THEN {"nil"}
  ELSE IF cdl[c] = "expired" THEN {"timeout"}
  ELSE IF Len(s2c[c]) >= n THEN {"nil"}
  ELSE IF SrvGone(c)
       THEN {IF Len(s2c[c]) = 0 THEN "EOF" ELSE "UnexpectedEOF", "reset"}
  ELSE {}

\* What is left to read after a read of n bytes that ended with e.  A read
\* that ends with the end of the stream or with a reset has taken the bytes
\* that were there: no later read on the connection finds data.
CliRest(c, n, e) ==
  IF e = "nil" THEN Drop(s2c[c], n)
  ELSE IF e \in {"UnexpectedEOF", "reset"} THEN << >>
  ELSE s2c[c]

\* The places of a task where it reads from or writes to its connection.
IoPcs == {"wr_header", "wr_data", "rd_size", "rd_body", "f_header", "f_buf",
          "f_count"}

\* The deadline set with conn.SetDeadline passes.  It shows at the next
\* read or write only, so it is taken to pass while a task is about to
\* read or write.
DeadlinePasses(c) ==
  /\ cdl[c] = "armed"
  /\ \E t \in Tasks : cl[t].conn = c /\ cl[t].pc \in IoPcs
  /\ cdl' = [cdl EXCEPT ![c] = "expired"]
  /\ UNCHANGED << netVars, srvVars, peerWrites, poolVars, cl, pipeVars, ops >>

\* --------------------------------------------------------- Client.SendRecv
\* retryableError that takes a timeout for retryable as well.
retryableErrorOrTimeout(e) == e \in {"EPIPE", "refused", "reset", "timeout"}

\* retryableError: a *net.OpError whose Err is EPIPE, ECONNREFUSED or
\* ECONNRESET.
retryableError(e) == e \in {"EPIPE", "refused", "reset"}

\* SendRecv after a failed sendRequest or readResponse: `continue` (the
\* connection is neither closed nor returned) or `return nil, err`.
SRNext(rec, e) ==
  IF retryableError(e) /\ rec.tries < Retries
  THEN [rec EXCEPT !.tries = @ + 1, !.pc = "take_lock", !.conn = 0, !.err = e]
  ELSE [rec EXCEPT !.pc = "done", !.res = << >>, !.err = e]

\* Flush after readDataWithLength number rec.i: responses[i], err = data, e
\* and the loop goes on, whatever e is.
FlushNext(rec, data, e) ==
  [rec EXCEPT !.responses[rec.i] = data, !.err = e, !.i = @ + 1,
              !.readFails = IF e = "nil" THEN @ ELSE @ + 1,
              !.pc = IF rec.i + 1 > rec.count THEN "ret_lock" ELSE "rd_size"]

ReadFailed(rec, e) ==
  IF rec.op = "sendrecv" THEN SRNext(rec, e) ELSE FlushNext(rec, << >>, e)

ReadDone(rec, data) ==
  IF rec.op = "sendrecv" THEN [rec EXCEPT !.res = data, !.pc = "ret_lock"]
  ELSE FlushNext(rec, data, "nil")

\* The server the client's address leads to: the first one, none once its
\* Close has returned, or the one started at the address after that.
ServerPhase ==
  IF closeCalls = << >> THEN "first"
  ELSE IF isClosed THEN "stopped"
  ELSE "restarted"

\* c.SendRecv(req) is called: tries := 1; c.pool.Take()
SRCall(t, req, maxOps) ==
  /\ ClientAlive
  /\ cl[t].pc = "idle"
  /\ ops < maxOps
  /\ ops' = ops + 1
  /\ cl' = [cl EXCEPT ![t] = [TIdle EXCEPT !.pc = "take_lock", !.op = "sendrecv",
                                           !.req = req, !.tries = 1,
                                           !.phase = ServerPhase,
                                           !.failedDown = cl[t].failedDown,
                                           !.held = cl[t].held]]
  /\ UNCHANGED << netVars, srvVars, peerWrites, poolVars, cdl, pipeVars >>

\* `if err != nil && tries < c.Retries { continue }`, then
\* conn.SetDeadline(...): on the last try a failed Take falls through to a
\* method call on a nil net.Conn, which panics.
SRAfterTake(t) ==
  /\ ClientAlive
  /\ cl[t].op = "sendrecv"
  /\ cl[t].pc = "took"
  /\ IF cl[t].err # "nil" /\ cl[t].tries < Retries
     THEN /\ cl' = [cl EXCEPT ![t].tries = @ + 1, ![t].pc = "take_lock"]
          /\ UNCHANGED cdl
     ELSE IF cl[t].err # "nil"
     THEN /\ cl' = [cl EXCEPT ![t].pc = "panic"]
          /\ UNCHANGED cdl
     ELSE /\ cl' = [cl EXCEPT ![t].pc = "wr_header"]
          /\ cdl' = [cdl EXCEPT ![cl[t].conn] = "armed"]
  /\ UNCHANGED << netVars, srvVars, peerWrites, poolVars, pipeVars, ops >>

\* writeDataWithLength: binary.Write(buf, binary.BigEndian, int32(len(data)))
SRWriteHeader(t) ==
  /\ ClientAlive
  /\ cl[t].pc = "wr_header"
  /\ LET c == cl[t].conn
         bytes == Enc32(Len(cl[t].req))
     IN \E e \in CliWriteErrs(c, bytes) :
          /\ c2s' = [c2s EXCEPT ![c] = IF e = "nil" THEN @ \o bytes ELSE @]
          /\ cl' = [cl EXCEPT ![t] = IF e \in {"nil", "lost"}
                                     THEN [cl[t] EXCEPT !.pc = "wr_data"]
                                     ELSE SRNext(cl[t], e)]
  /\ UNCHANGED << nextConn, s2c, cliEnd, srvEnd, backlog, srvVars, peerWrites,
                  poolVars, cdl, pipeVars, ops >>

\* writeDataWithLength: buf.Write(data)
SRWriteData(t) ==
  /\ ClientAlive
  /\ cl[t].pc = "wr_data"
  /\ LET c == cl[t].conn
         bytes == cl[t].req
     IN \E e \in CliWriteErrs(c, bytes) :
          /\ c2s' = [c2s EXCEPT ![c] = IF e = "nil" THEN @ \o bytes ELSE @]
          /\ cl' = [cl EXCEPT ![t] = IF e \in {"nil", "lost"}
                                     THEN [cl[t] EXCEPT !.pc = "rd_size"]
                                     ELSE SRNext(cl[t], e)]
  /\ UNCHANGED << nextConn, s2c, cliEnd, srvEnd, backlog, srvVars, peerWrites,
                  poolVars, cdl, pipeVars, ops >>

\* readDataWithLength: binary.Read(conn, binary.BigEndian, &size) and
\* make([]byte, size), which panics for a negative size.
ReadSize(t) ==
  /\ ClientAlive
  /\ cl[t].pc = "rd_size"
  /\ LET c == cl[t].conn
     IN \E e \in CliReadErrs(c, 4) :
          /\ s2c' = [s2c EXCEPT ![c] = CliRest(c, 4, e)]
          /\ cl' = [cl EXCEPT ![t] =
                      IF e # "nil" THEN ReadFailed(cl[t], e)
                      ELSE IF Dec32(Take(s2c[c], 4)) < 0
                      THEN [cl[t] EXCEPT !.pc = "panic"]
                      ELSE [cl[t] EXCEPT !.pc = "rd_body",
                                         !.rsize = Dec32(Take(s2c[c], 4))]]
  /\ UNCHANGED << nextConn, c2s, cliEnd, srvEnd, backlog, srvVars, peerWrites,
                  poolVars, cdl, pipeVars, ops >>

\* readDataWithLength: io.ReadFull(conn, data)
ReadBody(t) ==
  /\ ClientAlive
  /\ cl[t].pc = "rd_body"
  /\ LET c == cl[t].conn
         n == cl[t].rsize
     IN \E e \in CliReadErrs(c, n) :
          /\ s2c' = [s2c EXCEPT ![c] = CliRest(c, n, e)]
          /\ cl' = [cl EXCEPT ![t] =
                      IF e # "nil" THEN ReadFailed(cl[t], e)
                      ELSE ReadDone(cl[t], Take(s2c[c], n))]
  /\ UNCHANGED << nextConn, c2s, cliEnd, srvEnd, backlog, srvVars, peerWrites,
                  poolVars, cdl, pipeVars, ops >>

\* c.pool.Return(conn) has returned: return res, err
SRAfterReturn(t) ==
  /\ ClientAlive
  /\ cl[t].op = "sendrecv"
  /\ cl[t].pc = "returned"
  /\ cl' = [cl EXCEPT ![t].pc = "done", ![t].err = "nil"]
  /\ UNCHANGED << netVars, srvVars, peerWrites, poolVars, cdl, pipeVars, ops >>

\* The caller has its result; the task is free for the next call.
Finish(t) ==
  /\ ClientAlive
  /\ cl[t].pc = "done"
  /\ cl' = [cl EXCEPT ![t] =
               [TIdle EXCEPT !.held = cl[t].held,
                             !.failedDown =
                                \/ cl[t].failedDown
                                \/ /\ cl[t].op = "sendrecv"
                                   /\ cl[t].phase = "stopped"
                                   /\ cl[t].err # "nil"]]
  /\ UNCHANGED << netVars, srvVars, peerWrites, poolVars, cdl, pipeVars, ops >>

SendRecvStep(t) ==
  \/ SRAfterTake(t) \/ SRWriteHeader(t) \/ SRWriteData(t)
  \/ ReadSize(t) \/ ReadBody(t) \/ SRAfterReturn(t) \/ Finish(t)

\* ---------------------------------------------------------------- Pipeline
\* Send: p.Lock(); p.count++
PSendLock(t, req) ==
  /\ ClientAlive
  /\ cl[t].pc = "idle"
  /\ ops < MaxOps
  /\ pmutex = 0
  /\ ops' = ops + 1
  /\ pmutex' = t
  /\ pcount' = pcount + 1
  /\ cl' = [cl EXCEPT ![t] = [TIdle EXCEPT !.pc = "ps_header", !.op = "send",
                                           !.req = req, !.held = cl[t].held]]
  /\ UNCHANGED << netVars, srvVars, peerWrites, poolVars, cdl, pbuf >>

\* Send, writeDataWithLength(req, p.buf): the header
PSendHeader(t) ==
  /\ ClientAlive
  /\ cl[t].pc = "ps_header"
  /\ pbuf' = pbuf \o Enc32(Len(cl[t].req))
  /\ cl' = [cl EXCEPT ![t].pc = "ps_data"]
  /\ UNCHANGED << netVars, srvVars, peerWrites, poolVars, cdl, pcount, pmutex, ops >>

\* Send, writeDataWithLength(req, p.buf): the data; p.Unlock(); return err
PSendData(t) ==
  /\ ClientAlive
  /\ cl[t].pc = "ps_data"
  /\ pbuf' = pbuf \o cl[t].req
  /\ pmutex' = 0
  /\ cl' = [cl EXCEPT ![t].pc = "done", ![t].err = "nil"]
  /\ UNCHANGED << netVars, srvVars, peerWrites, poolVars, cdl, pcount, ops >>

\* p.Flush() is called: p.client.pool.Take()
FCall(t) ==
  /\ ClientAlive
  /\ cl[t].pc = "idle"
  /\ ops < MaxOps
  /\ ops' = ops + 1
  /\ cl' = [cl EXCEPT ![t] = [TIdle EXCEPT !.pc = "take_lock", !.op = "flush",
                                           !.held = cl[t].held]]
  /\ UNCHANGED << netVars, srvVars, peerWrites, poolVars, cdl, pipeVars >>

\* Flush: `if err != nil { return nil, err }` after Take
FAfterTake(t) ==
  /\ ClientAlive
  /\ cl[t].op = "flush"
  /\ cl[t].pc = "took"
  /\ cl' = [cl EXCEPT ![t].pc = IF cl[t].err # "nil" THEN "done" ELSE "f_header"]
  /\ UNCHANGED << netVars, srvVars, peerWrites, poolVars, cdl, pipeVars, ops >>

\* Flush: binary.Write(conn, binary.BigEndian, int32(-p.count))
FHeader(t) ==
  /\ ClientAlive
  /\ cl[t].pc = "f_header"
  /\ LET c == cl[t].conn
         bytes == Enc32(Neg32(pcount))
     IN \E e \in CliWriteErrs(c, bytes) :
          /\ c2s' = [c2s EXCEPT ![c] = IF e = "nil" THEN @ \o bytes ELSE @]
          /\ cl' = [cl EXCEPT ![t] = IF e \in {"nil", "lost"}
                                     THEN [cl[t] EXCEPT !.pc = "f_buf",
                                                        !.announced = pcount]
                                     ELSE [cl[t] EXCEPT !.pc = "done", !.err = e]]
  /\ UNCHANGED << nextConn, s2c, cliEnd, srvEnd, backlog, srvVars, peerWrites,
                  poolVars, cdl, pipeVars, ops >>

\* A Flush that empties the pipeline once it has written the buffer.
FBufReset(t) ==
  /\ ClientAlive
  /\ cl[t].pc = "f_buf"
  /\ LET c == cl[t].conn
     IN \E e \in CliWriteErrs(c, pbuf) :
          c2s' = [c2s EXCEPT ![c] = IF e = "nil" THEN @ \o pbuf ELSE @]
  /\ cl' = [cl EXCEPT ![t].pc = "f_count"]
  /\ pbuf' = << >>
  /\ pcount' = 0
  /\ UNCHANGED << nextConn, s2c, cliEnd, srvEnd, backlog, srvVars, peerWrites,
                  poolVars, cdl, pmutex, ops >>

\* Flush: conn.Write(p.buf.Bytes()), its error ignored; the buffer and the
\* count stay as they are.
FBuf(t) ==
  /\ ClientAlive
  /\ cl[t].pc = "f_buf"
  /\ LET c == cl[t].conn
     IN \E e \in CliWriteErrs(c, pbuf) :
          c2s' = [c2s EXCEPT ![c] = IF e = "nil" THEN @ \o pbuf ELSE @]
  /\ cl' = [cl EXCEPT ![t].pc = "f_count"]
  /\ UNCHANGED << nextConn, s2c, cliEnd, srvEnd, backlog, srvVars, peerWrites,
                  poolVars, cdl, pipeVars, ops >>

\* Flush: binary.Read(conn, binary.BigEndian, &responseCount);
\* `if -responseCount != p.count` fail; responses = make([][]byte, -responseCount)
FCount(t) ==
  /\ ClientAlive
  /\ cl[t].pc = "f_count"
  /\ LET c == cl[t].conn
         n == Neg32(Dec32(Take(s2c[c], 4)))
     IN \E e \in CliReadErrs(c, 4) :
          /\ s2c' = [s2c EXCEPT ![c] = CliRest(c, 4, e)]
          /\ cl' = [cl EXCEPT ![t] =
                      IF e # "nil" THEN [cl[t] EXCEPT !.pc = "done", !.err = e]
                      ELSE IF n # pcount
                      THEN [cl[t] EXCEPT !.pc = "done", !.err = "mismatch"]
                      ELSE [cl[t] EXCEPT !.count = n, !.i = 1,
                                         !.responses = [k \in 1..n |-> << >>],
                                         !.pc = IF n >= 1 THEN "rd_size"
                                                ELSE "ret_lock"]]
  /\ UNCHANGED << nextConn, c2s, cliEnd, srvEnd, backlog, srvVars, peerWrites,
                  poolVars, cdl, pipeVars, ops >>

\* A Flush that returns a nil error after the loop of reads.
FAfterReturnNil(t) ==
  /\ ClientAlive
  /\ cl[t].op = "flush"
  /\ cl[t].pc = "returned"
  /\ cl' = [cl EXCEPT ![t].pc = "done", ![t].err = "nil"]
  /\ UNCHANGED << netVars, srvVars, peerWrites, poolVars, cdl, pipeVars, ops >>

\* Flush: p.client.pool.Return(conn) has returned; return (responses and
\* the err of the last read).
FAfterReturn(t) ==
  /\ ClientAlive
  /\ cl[t].op = "flush"
  /\ cl[t].pc = "returned"
  /\ cl' = [cl EXCEPT ![t].pc = "done"]
  /\ UNCHANGED << netVars, srvVars, peerWrites, poolVars, cdl, pipeVars, ops >>

PipelineStep(t) ==
  \/ PSendHeader(t) \/ PSendData(t)
  \/ FAfterTake(t) \/ FHeader(t) \/ FBuf(t) \/ FCount(t) \/ FAfterReturn(t)

\* ------------------------------------------------------------ a raw peer
\* Any program at the other end of a connection: it connects, writes bytes
\* and closes.  What it writes are whole frames and batch headers, and, as
\* the last thing before it closes, a frame cut short.
PeerChunks ==
  {Frame(<< >>)} \cup {Frame(<< b >>) : b \in PayloadBytes}
    \cup {Enc32(-1), Enc32(-2)}
PeerCuts == {<< 0, 0 >>, Enc32(1)}
\* Whole requests: single requests and batches.
PeerRequests ==
  {Frame(<< >>)} \cup {Frame(<< b >>) : b \in PayloadBytes}
    \cup {Enc32(-1) \o Frame(<< b >>) : b \in PayloadBytes}
    \cup {Enc32(-2) \o Frame(<< 2 >>) \o Frame(<< 1 >>)}

PeerDial(maxConns) ==
  /\ nextConn < maxConns
  /\ listening /\ ~crashed
  /\ nextConn' = nextConn + 1
  /\ cliEnd' = [cliEnd EXCEPT ![nextConn + 1] = "open"]
  /\ srvEnd' = [srvEnd EXCEPT ![nextConn + 1] = "open"]
  /\ backlog' = Append(backlog, nextConn + 1)
  /\ UNCHANGED << c2s, s2c, srvVars, peerVars >>

PeerWrite(c, maxWrites, chunks) ==
  /\ cliEnd[c] = "open" /\ srvEnd[c] = "open" /\ ~crashed
  /\ peerWrites < maxWrites
  /\ \E chunk \in chunks : c2s' = [c2s EXCEPT ![c] = @ \o chunk]
  /\ peerWrites' = peerWrites + 1
  /\ UNCHANGED << nextConn, s2c, cliEnd, srvEnd, backlog, srvVars, cliVars >>

PeerCut(c, maxWrites) ==
  /\ cliEnd[c] = "open" /\ srvEnd[c] = "open" /\ ~crashed
  /\ peerWrites < maxWrites
  /\ \E chunk \in PeerCuts : c2s' = [c2s EXCEPT ![c] = @ \o chunk]
  /\ cliEnd' = [cliEnd EXCEPT ![c] = "closed"]
  /\ peerWrites' = peerWrites + 1
  /\ UNCHANGED << nextConn, s2c, srvEnd, backlog, srvVars, cliVars >>

PeerClose(c) ==
  /\ cliEnd[c] = "open"
  /\ cliEnd' = [cliEnd EXCEPT ![c] = "closed"]
  /\ UNCHANGED << nextConn, c2s, s2c, srvEnd, backlog, srvVars, peerVars >>

\* The peer aborts the connection: what it had sent and was not read is gone.
PeerReset(c) ==
  /\ cliEnd[c] = "open"
  /\ cliEnd' = [cliEnd EXCEPT ![c] = "reset"]
  /\ c2s' = [c2s EXCEPT ![c] = << >>]
  /\ UNCHANGED << nextConn, s2c, srvEnd, backlog, srvVars, peerVars >>

\* ------------------------------------------- the server and its raw peers
AcceptStep == StartCheck \/ StartAccept \/ StartAcceptErr

\* The reader of a connection, on the path of a single request.
ReaderSingle ==
  \E id \in Conns :
    \/ HInsert(id) \/ HReadHeader(id)
    \/ HParseSize(id) \/ HParseBody(id)
    \/ HSendHeader(id) \/ HSendData(id)
    \/ HClose(id) \/ HDelete(id)

\* The reader of a connection, on the path of a batch.
ReaderBatch ==
  \E id \in Conns :
    \/ HSubSize(id) \/ HSubBody(id) \/ HWait(id)
    \/ \E k \in DOMAIN h[id].wstate : Worker(id, k)

ReaderStep == ReaderSingle \/ ReaderBatch

CloseStep ==
  CloseListener \/ CloseSet \/ CloseIter \/ CloseReturn \/ CloseAlready

PeerStep(maxConns, maxWrites, chunks) ==
  \/ PeerDial(maxConns)
  \/ \E c \in Conns :
       \/ PeerWrite(c, maxWrites, chunks)
       \/ PeerClose(c) \/ PeerReset(c)

InitRaw ==
  InitNet /\ InitServer /\ handler = "faulty" /\ peerWrites = 0 /\ InitNoClient

\* One connection and what the reader goroutine does with the bytes on it.
NextReader ==
  \/ StartCheck \/ StartAccept \/ ReaderStep
  \/ PeerStep(1, MaxPeerWrites, PeerChunks)
  \/ \E c \in Conns : PeerCut(c, MaxPeerWrites)
SpecReader == InitRaw /\ [][NextReader]_vars

\* The chunks of PeerChunks and the batch header with the most negative
\* int32, 80 00 00 00.
HeaderChunks == PeerChunks \cup {Enc32(MinInt32)}

\* One connection whose peer also writes the header 80 00 00 00.
NextHeader ==
  \/ StartCheck \/ StartAccept \/ ReaderStep
  \/ PeerStep(1, MaxPeerWrites, HeaderChunks)
SpecHeader == InitRaw /\ [][NextHeader]_vars

\* The life of the server: the accept loop, the readers, and Close.
NextServer ==
  \/ AcceptStep \/ ReaderStep \/ CloseStep \/ MapRace
  \/ PeerStep(MaxConns, MaxLifeWrites, PeerRequests)
SpecServer == InitRaw /\ [][NextServer]_vars

\* The accept loop, Close, peers that connect, and the first statement of
\* the readers.  The goroutine of Start is scheduled as long as it can run.
NextAccept ==
  \/ AcceptStep
  \/ CloseStep
  \/ PeerDial(MaxConns)
  \/ \E id \in Conns : HInsert(id)
SpecAccept == InitRaw /\ [][NextAccept]_vars /\ WF_vars(AcceptStep)

\* ------------------------------------------------- client and server
\* The payloads the callers of the client use.
Payloads == {<< >>, << 1 >>, << 2 >>}

\* NewClient(addresses, 1, timeout) is under way against a server that
\* listens; one pipeline of that client exists.
InitClientOf(initials) ==
  /\ addresses = {1}
  /\ conns = << >>
  /\ mutex = 0
  /\ \E n \in initials :
       np = [pc |-> "loop", initial |-> n, i |-> 0, errs |-> << >>, err |-> "nil"]
  /\ cl = [t \in Tasks |-> TIdle]
  /\ cdl = [c \in Conns |-> "none"]
  /\ pbuf = << >>
  /\ pcount = 0
  /\ pmutex = 0
  /\ ops = 0

\* NewClient(addresses, 1, timeout) is under way.
InitClient == InitClientOf({1})

Init ==
  /\ InitNet
  /\ InitServer
  /\ peerWrites = 0
  /\ InitClient

\* A caller of SendRecv.
SendRecvCaller(t, maxOps, payloads) ==
  \/ \E req \in payloads : SRCall(t, req, maxOps)
  \/ PoolStep(t)
  \/ SendRecvStep(t)

\* A caller of Pipeline.Send and Pipeline.Flush.
PipelineCaller(t) ==
  \/ \E req \in Payloads : PSendLock(t, req)
  \/ FCall(t)
  \/ PoolStep(t)
  \/ PipelineStep(t)
  \/ ReadSize(t) \/ ReadBody(t) \/ Finish(t)

\* One goroutine calls SendRecv, again and again, on a client of a server
\* that stays up.
Next ==
  \/ StartCheck
  \/ StartAccept
  \/ ReaderSingle
  \/ NewPoolDial
  \/ NewPoolReturn
  \/ SendRecvCaller(1, MaxOps, Payloads)
  \/ \E c \in Conns : DeadlinePasses(c)

Spec == Init /\ [][Next]_vars

\* One goroutine calls SendRecv on a client of a server that may be closed
\* at any time.
NextDown ==
  \/ AcceptStep
  \/ ReaderSingle
  \/ CloseStep
  \/ NewPoolDial
  \/ NewPoolReturn
  \/ SendRecvCaller(1, MaxDownOps, {<< >>, << 1 >>})
  \/ \E c \in Conns : DeadlinePasses(c)

SpecDown == Init /\ [][NextDown]_vars

\* One goroutine sends on a pipeline and flushes it; the server stays up.
NextPipeline ==
  \/ StartCheck
  \/ StartAccept
  \/ ReaderStep
  \/ NewPoolDial
  \/ NewPoolReturn
  \/ PipelineCaller(1)

SpecPipeline == Init /\ [][NextPipeline]_vars

\* ------------------------------------------------- a raw remote end
\* What the remote end of a connection of the client may write: response
\* headers and frames, whole and cut short.
RemoteChunks ==
  {Enc32(0), Enc32(-1), Enc32(-2), Enc32(1), Frame(<< 1 >>), << 0, 0 >>}

\* The remote end writes a chunk on connection c.
RemoteWrite(c, maxWrites, chunks) ==
  /\ cliEnd[c] = "open" /\ srvEnd[c] = "open"
  /\ peerWrites < maxWrites
  /\ \E chunk \in chunks : s2c' = [s2c EXCEPT ![c] = @ \o chunk]
  /\ peerWrites' = peerWrites + 1
  /\ UNCHANGED << nextConn, c2s, cliEnd, srvEnd, backlog, srvVars, cliVars >>

\* The remote end closes connection c.
RemoteClose(c) ==
  /\ cliEnd[c] = "open" /\ srvEnd[c] = "open"
  /\ srvEnd' = [srvEnd EXCEPT ![c] = "closed"]
  /\ UNCHANGED << nextConn, c2s, s2c, cliEnd, backlog, srvVars, peerVars >>

\* What the remote end does: it writes what it likes and closes when it
\* likes.
RemoteStep ==
  \E c \in Conns :
    \/ RemoteWrite(c, MaxRemoteWrites, RemoteChunks)
    \/ RemoteClose(c)

\* The client of TestEchoServerReconnect, with a pool of 1 or 2 connections.
InitRestart ==
  /\ InitNet
  /\ InitServer
  /\ handler = "echo"
  /\ peerWrites = 0
  /\ InitClientOf({1, 2})

\* One goroutine calls SendRecv on a client whose server is stopped, once,
\* and then started again at the same address.  The calls begin after Close
\* has returned, each with a payload of one byte, and every step is taken
\* within the 10 s deadline of the call.
NextRestart ==
  \/ AcceptStep
  \/ \E id \in Conns :
       \/ HInsert(id) \/ HReadHeader(id) \/ HParseBody(id)
       \/ HSendHeader(id) \/ HSendData(id)
       \/ HClose(id) \/ HDelete(id)
  \/ (closeCalls = << >> /\ CloseListener)
  \/ CloseSet
  \/ CloseIter
  \/ CloseReturn
  \/ Restart
  \/ NewPoolDial
  \/ NewPoolReturn
  \/ (closeCalls # << >> /\ SRCall(1, << 1 >>, MaxRestartOps))
  \/ PoolStep(1)
  \/ SendRecvStep(1)

SpecRestart == InitRestart /\ [][NextRestart]_vars

\* A span of a server that does nothing else.
SpecSpan == Init /\ [][NextSpan]_vars

\* NewClient is under way; the remote end is not the server of this module,
\* whose accept loop does not run.
InitRemote == Init /\ handler = "echo"

\* The client with one goroutine that calls SendRecv, and a raw remote end.
NextRemote ==
  \/ NewPoolDial
  \/ NewPoolReturn
  \/ SendRecvCaller(1, MaxOps, {<< 1 >>})
  \/ \E c \in Conns : DeadlinePasses(c)
  \/ RemoteStep

SpecRemote == InitRemote /\ [][NextRemote]_vars

\* The client with one goroutine that calls Send and Flush, and a raw remote
\* end.
NextRemotePipeline ==
  \/ NewPoolDial
  \/ NewPoolReturn
  \/ PipelineCaller(1)
  \/ RemoteStep

SpecRemotePipeline == InitRemote /\ [][NextRemotePipeline]_vars

\* Two goroutines use one client.  Task 1 calls SendRecv with payload 1,
\* sends payload 1 on the pipeline and flushes it; task 2 calls SendRecv with
\* payload 2 once the Flush has begun, beside it or after it.  The server is
\* the EchoHandler's and stays up.  Every SendRecv is over within its
\* deadline; the deadline it has left on its connection may pass while the
\* Flush uses that connection.
NextMixed ==
  \/ StartCheck
  \/ StartAccept
  \/ \E id \in Conns :
       \/ HInsert(id) \/ HReadHeader(id) \/ HParseBody(id)
       \/ HSendHeader(id) \/ HSendData(id)
       \/ HClose(id) \/ HDelete(id)
  \/ ReaderBatch
  \/ NewPoolDial
  \/ NewPoolReturn
  \/ (ops = 0 /\ SRCall(1, << 1 >>, MaxMixedOps))
  \/ (ops = 1 /\ PSendLock(1, << 1 >>))
  \/ (ops = 2 /\ FCall(1))
  \/ (ops = 3 /\ SRCall(2, << 2 >>, MaxMixedOps))
  \/ \E t \in Tasks : PoolStep(t) \/ SendRecvStep(t)
  \/ PipelineStep(1)
  \/ \E c \in Conns :
       (cl[1].op = "flush" /\ cl[1].conn = c) /\ DeadlinePasses(c)

SpecMixed == InitRemote /\ [][NextMixed]_vars

\* Two goroutines share one pipeline: task 1 calls Send, task 2 calls Flush.
NextSendFlush ==
  \/ NewPoolDial
  \/ NewPoolReturn
  \/ PSendLock(1, << 1 >>) \/ PSendHeader(1) \/ PSendData(1) \/ Finish(1)
  \/ FCall(2)
  \/ PoolStep(2)
  \/ FAfterTake(2) \/ FHeader(2) \/ FBuf(2) \/ FCount(2) \/ FAfterReturn(2)
  \/ ReadSize(2) \/ ReadBody(2) \/ Finish(2)
  \/ RemoteStep

SpecSendFlush == InitRemote /\ [][NextSendFlush]_vars

\* ================================================================ claims
\* The readers the accept loop has started.
Started == {id \in Conns : h[id].pc # "none"}

\* The pcs at which a reader is inside parseRequest for a single request.
InSingleParse(id) == h[id].pc \in {"parse_size", "parse_body"}

\* The number of length-prefixed frames bs consists of; -1 when bs is not a
\* sequence of whole frames.
RECURSIVE FrameCount(_)
FrameCount(bs) ==
  IF bs = << >> THEN 0
  ELSE IF Len(bs) < 4 THEN -1
  ELSE LET n == Dec32(Take(bs, 4))
       IN IF n < 0 \/ Len(bs) < 4 + n THEN -1
          ELSE LET rest == FrameCount(Drop(bs, 4 + n))
               IN IF rest < 0 THEN -1 ELSE 1 + rest

\* C3: a top-level header H = 0 is a single request with an empty payload:
\* once the reader has read the header 0 it takes no further byte from the
\* connection, and it goes on to answer with the handler's response to the
\* empty payload.
C3_ZeroHeaderIsEmptyRequest ==
  [][\A id \in Conns :
       (InSingleParse(id) /\ h[id].size = 0 /\ h'[id] # h[id])
         => /\ c2s'[h[id].conn] = c2s[h[id].conn]
            /\ h'[id].pc = "send_header" => h'[id].requests = << << >> >>
    ]_vars

\* C4: when the server answers a request with top-level header H, the
\* response header R is negative iff H is; for a batch R = H and the body is
\* exactly -H length-prefixed sub-responses; for a single request R is the
\* length of the response payload.  The header is what goes on the wire.
C4_ResponseHeaderMirrorsRequest ==
  \A id \in Conns :
    h[id].pc \in {"send_header", "send_data"} =>
      LET H == h[id].size
          R == h[id].header
          body == h[id].response
          c == h[id].conn
      IN /\ (H < 0) <=> (R < 0)
         /\ H < 0 => (R = H /\ FrameCount(body) = -H)
         /\ H >= 0 => (R = Len(body) /\ R >= 0)
         /\ (h[id].pc = "send_data" /\ cliEnd[c] = "open")
              => (/\ Len(s2c[c]) >= 4
                  /\ Drop(s2c[c], Len(s2c[c]) - 4) = Enc32(R))

\* C4 witness: a batch of two is about to be answered, the first sub-request
\* having failed and the second not.
C4_Witness ==
  \E id \in Conns :
    /\ h[id].pc = "send_data"
    /\ h[id].size = -2
    /\ h[id].responses = << << >>, << 1 >> >>
    /\ cliEnd[h[id].conn] = "open"

\* A reader that has left Server.handle.
Exited(id) == h[id].pc \in {"done", "returned"}

\* A reader that waits in a read for bytes of its peer.
BlockedInRead(id) ==
  /\ h[id].pc \in {"read", "sub_size", "parse_size"}
  /\ SrvReadErr(h[id].conn, 4, h[id].expired) = "block"

\* Every task of the server has finished or waits for a peer.
Quiesced ==
  /\ startPc = "exited"
  /\ closePc = "idle"
  /\ \A id \in Started : Exited(id) \/ BlockedInRead(id)

\* C8: after Close has returned and all tasks have quiesced, the map of
\* active connections is empty and every accepted connection is closed.
C8_CloseClosesEveryConnection ==
  (closeCalls # << >> /\ Quiesced)
    => /\ DOMAIN clientConns = {}
       /\ \A id \in Started : srvEnd[h[id].conn] = "closed"

\* C9: a reader that has exited has closed its connection and deleted its
\* id from the map of active connections.
C9_ExitClosesAndDeletes ==
  \A id \in Started :
    Exited(id) => (srvEnd[h[id].conn] = "closed" /\ id \notin DOMAIN clientConns)

\* A step in which the handler returns an error to the reader of a single
\* request, or to the goroutine of sub-request k of a batch.
HandlerFailsSingle(id) ==
  /\ h[id].pc = "parse_body"
  /\ h'[id].pc # "parse_body"
  /\ h'[id].err = "handler"
HandlerFailsSub(id, k) ==
  /\ k \in DOMAIN h[id].wstate
  /\ h[id].wstate[k] = "running"
  /\ k \in DOMAIN h'[id].wstate
  /\ h'[id].wstate[k] = "done"
  /\ Respond(h[id].requests[k]).err # "nil"

\* C10: a handler invocation that returns an error increments
\* operation.failure, for a single request and for a sub-request of a batch.
C10_HandlerErrorCountsAsFailure ==
  [][\A id \in Conns :
       (HandlerFailsSingle(id) \/ \E k \in 1..2 : HandlerFailsSub(id, k))
         => opFailure' = opFailure + 1
    ]_vars


\* How often connection c occurs in the idle list.
IdleCount(c) == Cardinality({i \in 1..Len(conns) : conns[i] = c})

\* The connections task t holds: those Take returned to it and it has not
\* yet given back, the one in hand included.
LentTo(t) ==
  cl[t].held \o
    (IF \/ cl[t].pc = "took" /\ cl[t].err = "nil"
        \/ cl[t].pc \in {"ret_lock", "ret_locked"}
     THEN << cl[t].conn >> ELSE << >>)

\* How often connection c is held, over all tasks.
LentCount(c) ==
  Cardinality({ti \in Tasks \X (1..(MaxOps + 1)) :
                 /\ ti[2] <= Len(LentTo(ti[1]))
                 /\ LentTo(ti[1])[ti[2]] = c})

\* C6: under every interleaving of Take and Return, each connection of the
\* pool is exactly once in the idle list or exactly once in the hands of one
\* caller, never both and never twice.
C6_PoolExclusivity ==
  \A c \in 1..nextConn : IdleCount(c) + LentCount(c) = 1

\* One task is inside Take's critical section, about to shift the idle list,
\* while another task that holds a connection waits for the lock in Return.
C6_Witness ==
  \E t1 \in Tasks, t2 \in Tasks :
    /\ t1 # t2
    /\ cl[t1].pc = "take_shift"
    /\ cl[t2].pc = "ret_lock"
    /\ cl[t2].conn # cl[t1].conn

\* C7: construction fails exactly when at least one dial was attempted and
\* all of them failed, with the first error recorded; otherwise, with no
\* attempt included, it succeeds and the idle list holds the connections
\* dialed.
C7_ConstructionOutcome ==
  [][(np.pc = "loop" /\ np'.pc # "loop") =>
       IF np.i >= 1 /\ Len(np.errs) = np.i
       THEN np'.pc = "failed" /\ np'.err = np.errs[1]
       ELSE np'.pc = "ok" /\ conns' = [k \in 1..nextConn |-> k]]_vars

\* The payloads of the frames in a buffer of whole frames.
RECURSIVE Unframe(_)
Unframe(bytes) ==
  IF Len(bytes) < 4 THEN << >>
  ELSE LET n == Dec32(Take(bytes, 4))
       IN IF n < 0 \/ Len(bytes) < 4 + n THEN << >>
          ELSE << Take(Drop(bytes, 4), n) >> \o Unframe(Drop(bytes, 4 + n))

\* The payloads sent on the pipeline so far, in the order of the Send calls.
SentPayloads == Unframe(pbuf)

\* Task t has a Flush that returned without error.
Flushed(t) == cl[t].op = "flush" /\ cl[t].pc = "done" /\ cl[t].err = "nil"

\* The reader of connection c has started a worker for every sub-request of
\* every batch it was sent.
AllWorkersStarted(c) == \A id \in Conns : h[id].conn = c => ~h[id].skipped

SrvWaiting(c) ==
  \E id \in Conns :
    /\ h[id].conn = c
    /\ srvEnd[c] = "open"
    /\ \/ h[id].pc \in {"read", "parse_size"} /\ Len(c2s[c]) < 4
       \/ h[id].pc = "parse_body" /\ Len(c2s[c]) < h[id].psize

\* Task t waits for bytes the server has not written.
CliWaiting(t) ==
  \/ cl[t].pc = "rd_size" /\ Len(s2c[cl[t].conn]) < 4
  \/ cl[t].pc = "rd_body" /\ Len(s2c[cl[t].conn]) < cl[t].rsize

\* C2: with the echo handler a SendRecv that returns without error returns
\* its payload, and no SendRecv comes to wait for a response while the
\* server waits for more of the request, where only an error can end it.
C2_RoundTrip ==
  \A t \in Tasks :
    (handler = "echo" /\ cl[t].op = "sendrecv") =>
      /\ (cl[t].pc = "done" /\ cl[t].err = "nil") => cl[t].res = cl[t].req
      /\ ~(CliWaiting(t) /\ SrvWaiting(cl[t].conn))

\* C5: a SendRecv all of whose dials failed ends by returning an error, and
\* it dials at most Retries times.
C5_RetryBound ==
  \A t \in Tasks :
    (cl[t].op = "sendrecv" /\ cl[t].dials >= 1 /\ cl[t].fails = cl[t].dials) =>
      /\ cl[t].dials <= Retries
      /\ cl[t].pc \in {"done", "panic"} =>
           (cl[t].pc = "done" /\ cl[t].err # "nil")

\* C11: in the response to a batch of N there are N sub-responses; that of a
\* sub-request for which the handler failed has length 0, and that of every
\* other sub-request the handler ran for is the handler's result for it.
C11_SiblingIsolation ==
  \A id \in Conns :
    (h[id].pc \in {"send_header", "send_data"} /\ h[id].size < 0) =>
      LET subs == Unframe(h[id].response)
      IN /\ Len(subs) = h[id].count
         /\ \A k \in 1..h[id].count :
              h[id].wstate[k] = "done" =>
                subs[k] = IF Respond(h[id].requests[k]).err # "nil" THEN << >>
                          ELSE Respond(h[id].requests[k]).res

\* A batch of two is about to be answered: the handler has failed for the
\* first sub-request and has returned a payload for the second.
C11_Witness ==
  \E id \in Conns :
    /\ h[id].pc = "send_header"
    /\ h[id].count = 2
    /\ h[id].wstate = << "done", "done" >>
    /\ Respond(h[id].requests[1]).err # "nil"
    /\ Respond(h[id].requests[2]).res # << >>

\* The step of task t in which Flush reads the response header R whole.
ReadsCount(t) ==
  /\ cl[t].pc = "f_count"
  /\ cl'[t].pc # "f_count"
  /\ CliReadErrs(cl[t].conn, 4) = {"nil"}

\* C12: a Flush with N sub-requests buffered that reads the response header R
\* fails with the mismatch error when R >= 0 or |R| # N, and goes on to
\* return responses only when R = -N.
C12_FlushRejectsMismatch ==
  [][\A t \in Tasks :
       ReadsCount(t) =>
         LET R == Dec32(Take(s2c[cl[t].conn], 4))
             N == pcount
         IN /\ (R >= 0 \/ Neg32(R) # N)
                 => (cl'[t].pc = "done" /\ cl'[t].err = "mismatch")
            /\ cl'[t].pc \in {"rd_size", "ret_lock"} => R = -N
    ]_vars

\* Task t has a SendRecv or a Flush that returned the error of a write or a
\* read on the connection it had taken.
FailedOnConn(t) ==
  /\ cl[t].op \in {"sendrecv", "flush"}
  /\ cl[t].pc = "done"
  /\ cl[t].conn # 0
  /\ cl[t].err \notin {"nil", "mismatch"}

\* C13: after a SendRecv or a Flush in which a write or a read on the taken
\* connection failed, that connection is not in the idle list of the pool.
C13_FailedConnNotReturned ==
  \A t \in Tasks : FailedOnConn(t) => IdleCount(cl[t].conn) = 0

\* A step in which SendRecv, in task t, writes to or reads from its
\* connection.
SendRecvIo(t) ==
  /\ cl[t].op = "sendrecv"
  /\ cl[t].pc \in {"wr_header", "wr_data", "rd_size", "rd_body"}
  /\ cl'[t] # cl[t]

\* C14: SendRecv makes another attempt after a failed write or read exactly
\* when the error is a broken pipe, a refused or a reset connection and
\* attempts remain, and then without the failed connection in the pool; on
\* any other error, and when no attempt remains, it returns that error.
C14_RetryPolicy ==
  [][\A t \in Tasks :
       SendRecvIo(t) =>
         /\ cl'[t].pc = "take_lock" =>
              /\ cl'[t].err \in {"EPIPE", "refused", "reset"}
              /\ cl[t].tries < Retries
              /\ cl'[t].tries = cl[t].tries + 1
              /\ IdleCount(cl[t].conn) = 0
         /\ cl'[t].pc = "done" =>
              /\ cl'[t].err # "nil"
              /\ cl'[t].res = << >>
              /\ cl'[t].err \in {"EPIPE", "refused", "reset"}
                   => cl[t].tries = Retries
    ]_vars

\* SendRecv is on its second attempt after a write or a read that failed
\* with a reset connection.
C14_Witness ==
  \E t \in Tasks :
    /\ cl[t].op = "sendrecv"
    /\ cl[t].pc = "take_lock"
    /\ cl[t].tries = 2
    /\ cl[t].err = "reset"

\* C15: a SendRecv that begins after the server has been stopped returns a
\* nil response and a non-nil error, whatever the idle connections and the
\* dials give.
C15_SendRecvAfterStopFails ==
  \A t \in Tasks :
    (cl[t].op = "sendrecv" /\ cl[t].phase = "stopped" /\ cl[t].pc \in {"done", "panic"})
      => (cl[t].pc = "done" /\ cl[t].res = << >> /\ cl[t].err # "nil")

\* C16: once the server has been stopped, a SendRecv has failed and a new
\* server runs at the same address, every SendRecv that begins then returns
\* the echoed payload and no error.
C16_Reconnect ==
  \A t \in Tasks :
    ( /\ cl[t].op = "sendrecv" /\ cl[t].phase = "restarted" /\ cl[t].failedDown
      /\ cl[t].pc \in {"done", "panic"}
      /\ listening /\ ~isClosed /\ closePc = "idle" /\ ~crashed )
      => (cl[t].pc = "done" /\ cl[t].err = "nil" /\ cl[t].res = cl[t].req)

\* A SendRecv that began after the restart, after one that failed while the
\* server was stopped, has returned the echoed payload.
C16_Recovered ==
  \E t \in Tasks :
    /\ cl[t].op = "sendrecv" /\ cl[t].phase = "restarted" /\ cl[t].failedDown
    /\ cl[t].pc = "done" /\ cl[t].err = "nil" /\ cl[t].res = cl[t].req

\* C17: a Close called on a server that is already closed returns the
\* "already closed" error and leaves the server and its connections as they
\* were; a Close called on an open server returns another result, and no
\* Close enters the closing path on a closed server.
C17_CloseAlreadyClosed ==
  [][ /\ (closeCalls' # closeCalls) =>
           IF closePc = "idle"
           THEN /\ isClosed
                /\ closeCalls' = Append(closeCalls, "already closed")
                /\ UNCHANGED << netVars, handler, span, lifeVars, connId, clientConns,
                                startPc, h, closePc, closeSnap, statVars, crashed >>
           ELSE /\ closeCalls' = Append(closeCalls, "nil")
                /\ closePc' = "idle"
      /\ (closePc = "idle" /\ closePc' # "idle") => ~isClosed
      /\ (closePc = "idle" /\ isClosed /\ closeCalls' # closeCalls) =>
           closeCalls'[Len(closeCalls')] = "already closed"
    ]_vars

\* A first Close has returned nil and a second one the "already closed"
\* error.
C17_Witness == closeCalls = << "nil", "already closed" >>

\* C18: a negative length on the wire never brings the program down: the
\* server has not crashed, and no client task has panicked on a connection
\* it was reading from.
C18_NegativeLengthIsAnError ==
  /\ ~crashed
  /\ \A t \in Tasks : ~(cl[t].pc = "panic" /\ cl[t].conn # 0)

\* C19: after any sequence of Increment and Add calls on one span, the
\* counters are exactly the names that were incremented or added to, one
\* entry each; a counter holds the number of its Increment calls plus the
\* deltas added to it, so k Increments from absent leave it at k and calls on
\* another name do not change it; an Increment returns the new value, k for
\* the k-th.
C19_CounterExclusivity ==
  /\ DOMAIN span.Counters = {n \in CounterNames : span.incs[n] + span.adds[n] > 0}
  /\ \A n \in DOMAIN span.Counters :
       /\ span.Counters[n] = span.incs[n] + span.addSum[n]
       /\ span.adds[n] = 0 => span.Counters[n] = span.incs[n]
  /\ span.lastOp = "Increment" =>
       /\ span.ret = span.Counters[span.lastName]
       /\ span.adds[span.lastName] = 0 => span.ret = span.incs[span.lastName]

\* TestIncrement: after two Increments of "test" and one of "test2", the
\* third Increment of "test" has returned 3.
C19_Witness ==
  /\ span.incs = [n \in CounterNames |-> IF n = "test" THEN 3 ELSE 1]
  /\ span.calls = 4
  /\ span.lastOp = "Increment" /\ span.lastName = "test" /\ span.ret = 3

\* C20: a task that is dialing, writing to or reading from a connection
\* holds neither the pool mutex nor the pipeline mutex.
C20_NoLockAcrossIo ==
  \A t \in Tasks :
    cl[t].pc \in IoPcs \cup {"take_dial"} => (mutex # t /\ pmutex # t)

\* C21: at no time are two tasks (readers inserting or deleting their entry,
\* Close deleting in its range) about to write the map of active connections
\* together.
C21_MapWritesSynchronized == Cardinality(MapWriters) <= 1

\* C22: a SendRecv that sets the deadline on, writes to or reads from a
\* connection does so on a connection a successful Take gave it, never on the
\* nil connection of a failed Take.
C22_NoUseAfterFailedTake ==
  \A t \in Tasks :
    (cl[t].op = "sendrecv" /\ cl[t].pc \in IoPcs \cup {"panic"}) =>
      cl[t].conn \in Conns

\* C23: when a SendRecv or a Flush has ended, the connection it had taken is
\* in the idle list of the pool or has been closed by the client.
C23_TakenConnReturnedOrClosed ==
  \A t \in Tasks :
    (cl[t].op \in {"sendrecv", "flush"} /\ cl[t].pc = "done" /\ cl[t].conn # 0)
      => (IdleCount(cl[t].conn) >= 1 \/ cliEnd[cl[t].conn] = "closed")

\* Reader id has a worker of its batch that has not finished.
WorkerRunning(id) == \E k \in DOMAIN h[id].wstate : h[id].wstate[k] = "running"

\* C24: the reader of a batch has built its output, and writes bytes of the
\* response to the connection, only when no worker of the batch is still
\* running; and a step that changes a result slot is the end of the worker
\* of that index and changes no other slot.
C24_JoinBarrier ==
  [][\A id \in Conns :
       /\ (h[id].pc \in {"send_header", "send_data"} /\ h[id].size < 0) =>
            ~WorkerRunning(id)
       /\ (h[id].pc # "none" /\ h[id].size < 0
             /\ s2c'[h[id].conn] # s2c[h[id].conn]) => ~WorkerRunning(id)
       /\ \A j \in DOMAIN h[id].responses \cap DOMAIN h'[id].responses :
            h'[id].responses[j] # h[id].responses[j] =>
              /\ h[id].wstate[j] = "running"
              /\ h'[id].wstate[j] = "done"
              /\ \A i \in DOMAIN h[id].responses \ {j} :
                   h'[id].responses[i] = h[id].responses[i]
    ]_vars

\* The response to a batch of two is being written: both workers have
\* finished and have filled their slots.
C24_Witness ==
  \E id \in Conns :
    /\ h[id].pc = "send_data" /\ h[id].size < 0
    /\ h[id].count = 2
    /\ h[id].wstate = << "done", "done" >>
    /\ h[id].responses[1] # << >> /\ h[id].responses[2] # << >>

\* C25: a reader for which the read of a sub-frame of a batch has failed is
\* on its way out (closing the connection, or ended): it reads no further
\* sub-frame, waits for no worker and writes no batch response.
C25_FailedSubReadEndsReader ==
  \A id \in Conns :
    h[id].skipped => h[id].pc \in {"close", "delete", "done", "returned"}

\* C26: in every Flush, the buffer bytes it writes to the connection are
\* whole sub-frames, as many as the batch header it has written announces.
C26_FlushAtomic ==
  [][\A t \in Tasks :
       (cl[t].pc = "f_buf" /\ cl'[t].pc = "f_count") =>
         FrameCount(pbuf) = cl[t].announced
    ]_vars

\* The step in which a read or a write of reader id fails with an error
\* that handle gets to see.
FailsInHandle(id) ==
  /\ h[id].pc \notin {"none", "close", "delete", "done", "returned"}
  /\ h[id].err = "nil"
  /\ h'[id].err \notin {"nil", "handler"}

\* The step in which the read of a sub-frame of a batch fails.
FailsInBatch(id) == ~h[id].skipped /\ h'[id].skipped

\* C27: when a read or a write of a reader fails with EOF, unexpected EOF, a
\* closed pipe or a timeout, the reader goes to close its connection and
\* operation.failure stays as it is; on any other error operation.failure
\* grows by one and the reader returns.
C27_ClosableErrorsExitQuietly ==
  [][\A id \in Conns :
       /\ FailsInHandle(id) =>
            IF h'[id].err \in {"EOF", "UnexpectedEOF", "ErrClosedPipe", "timeout"}
            THEN h'[id].pc = "close" /\ opFailure' = opFailure
            ELSE h'[id].pc = "returned" /\ opFailure' = opFailure + 1
       /\ FailsInBatch(id) => h'[id].pc \in {"close", "returned"}
    ]_vars

\* The state of the per-connection machine a reader is in.
ReaderPhase(pc) ==
  CASE pc \in {"none", "insert"} -> "Start"
    [] pc = "read" -> "ReadingHeader"
    [] pc \in {"parse_size", "parse_body"} -> "Single"
    [] pc \in {"sub_size", "sub_body", "wait"} -> "Batch"
    [] pc \in {"send_header", "send_data"} -> "WritingResponse"
    [] OTHER -> "Closed"

\* The moves of the machine from one state to another.
PhaseMoves ==
  {<< "Start", "ReadingHeader" >>,
   << "ReadingHeader", "Single" >>, << "ReadingHeader", "Batch" >>,
   << "ReadingHeader", "Closed" >>,
   << "Single", "WritingResponse" >>, << "Single", "Closed" >>,
   << "Batch", "WritingResponse" >>, << "Batch", "Closed" >>,
   << "WritingResponse", "ReadingHeader" >>, << "WritingResponse", "Closed" >>}

\* What is left of bytes after n whole frames, if they are there.
RECURSIVE SkipFrames(_, _)
SkipFrames(bytes, n) ==
  IF n = 0 THEN [ok |-> TRUE, rest |-> bytes]
  ELSE IF Len(bytes) < 4 THEN [ok |-> FALSE, rest |-> << >>]
  ELSE LET len == Dec32(Take(bytes, 4))
       IN IF len < 0 \/ Len(bytes) < 4 + len THEN [ok |-> FALSE, rest |-> << >>]
          ELSE SkipFrames(Drop(bytes, 4 + len), n - 1)

\* The number of whole responses (single ones, and batch responses with all
\* their sub-responses) that bytes consists of; -1 when it ends inside one.
RECURSIVE WholeResponses(_)
WholeResponses(bytes) ==
  IF bytes = << >> THEN 0
  ELSE IF Len(bytes) < 4 THEN -1
  ELSE LET hd == Dec32(Take(bytes, 4))
           after == IF hd >= 0
                    THEN (IF Len(bytes) < 4 + hd THEN [ok |-> FALSE, rest |-> << >>]
                          ELSE [ok |-> TRUE, rest |-> Drop(bytes, 4 + hd)])
                    ELSE SkipFrames(Drop(bytes, 4), Neg32(hd))
       IN IF ~after.ok THEN -1
          ELSE LET more == WholeResponses(after.rest)
               IN IF more < 0 THEN -1 ELSE 1 + more

\* C28: the reader of a connection moves Reading-header -> (Single | Batch)
\* -> Writing-response -> Reading-header | Closed; it writes to the
\* connection only while Writing-response; and whenever it is about to read a
\* header, what it has written to a peer that is still there is a sequence of
\* whole responses, one for each request it has answered: the response to
\* request k is complete before the header of request k + 1 is read.
C28_StrictlyInOrder ==
  [][\A id \in Conns :
       /\ ReaderPhase(h'[id].pc) # ReaderPhase(h[id].pc) =>
            << ReaderPhase(h[id].pc), ReaderPhase(h'[id].pc) >> \in PhaseMoves
       /\ (h[id].pc # "none" /\ s2c'[h[id].conn] # s2c[h[id].conn]) =>
            ReaderPhase(h[id].pc) = "WritingResponse"
       /\ (h[id].pc = "read" /\ cliEnd[h[id].conn] = "open") =>
            WholeResponses(s2c[h[id].conn]) = opSuccess
    ]_vars

\* Two requests on one connection have been answered, one after the other,
\* and the reader is about to read the header of a third.
C28_Witness ==
  \E id \in Conns :
    /\ h[id].pc = "read" /\ cliEnd[h[id].conn] = "open"
    /\ opSuccess = 2
    /\ WholeResponses(s2c[h[id].conn]) = 2

\* C29: no step of a Flush changes the buffer or the count of the pipeline,
\* and the buffer a Flush writes holds one sub-frame for every Send made on
\* the pipeline so far: a second Flush sends the same sub-requests again, a
\* Flush after one more Send sends one more.
C29_FlushKeepsPipeline ==
  [][\A t \in Tasks :
       /\ cl[t].op = "flush" => (pbuf' = pbuf /\ pcount' = pcount)
       /\ (cl[t].pc = "f_buf" /\ cl'[t].pc = "f_count") =>
            /\ FrameCount(pbuf) = pcount
            /\ cl[t].announced = pcount
            /\ c2s'[cl[t].conn] \in {c2s[cl[t].conn], c2s[cl[t].conn] \o pbuf}
       /\ (cl[t].op = "send" /\ cl[t].pc = "ps_data" /\ cl'[t].pc = "done") =>
            /\ pcount' = pcount
            /\ FrameCount(pbuf') = pcount
    ]_vars

\* After one Send and a Flush, a second Flush has returned without error,
\* again with one response, and the pipeline still holds its sub-request.
C29_Witness ==
  \E t \in Tasks :
    /\ Flushed(t)
    /\ ops = 3 /\ pcount = 1
    /\ opSuccess = 2
    /\ Len(cl[t].responses) = 1
    /\ FrameCount(pbuf) = 1

CallsOf(sp, name) == {i \in DOMAIN sp.calls : sp.calls[i] = name}

\* sp is the span of one handleRequest(request, multi): it was made for
\* this call, has the attribute multi = true iff multi, the handler was
\* called once with `request` between Start and Finish of "duration", and
\* Record was called once, after the handler.
SpanOfOneCall(sp, request, multi) ==
  /\ CallsOf(sp, "NewSpan") = {1}
  /\ sp.request = request
  /\ (<< "multi", "true" >> \in sp.attrs) <=> multi
  /\ Cardinality(CallsOf(sp, "Respond")) = 1
  /\ Cardinality(CallsOf(sp, "Record")) = 1
  /\ \E s \in CallsOf(sp, "Start duration"), r \in CallsOf(sp, "Respond"),
        f \in CallsOf(sp, "Finish duration"), d \in CallsOf(sp, "Record") :
        s < r /\ r < f /\ f < d

\* C31: the handler is invoked exactly once, with a span of its own, for
\* every single request and every sub-request that was parsed, and for no
\* other; the span has multi = true iff the request is a sub-request of a
\* batch; "duration" is started before and finished after the handler call
\* and Record is called once, after it.  When the response of a batch is
\* written every parsed sub-request has had its call.
C31_HandlerInvokedOnce ==
  \A id \in Conns :
    IF h[id].size < 0
    THEN \A k \in DOMAIN h[id].wstate :
           /\ h[id].wstate[k] = "done" =>
                 /\ Len(h[id].spans[k]) = 1
                 /\ SpanOfOneCall(h[id].spans[k][1], h[id].requests[k], TRUE)
           /\ h[id].wstate[k] # "done" => h[id].spans[k] = << >>
           /\ h[id].pc \in {"send_header", "send_data"} =>
                 h[id].wstate[k] # "running"
    ELSE IF Len(h[id].requests) = 1
    THEN /\ Len(h[id].spans) = 1
         /\ Len(h[id].spans[1]) = 1
         /\ SpanOfOneCall(h[id].spans[1][1], h[id].requests[1], FALSE)
    ELSE h[id].spans = << >>

\* The response of a batch of two is about to be written: the handler was
\* invoked for both sub-requests, and failed for the first.
C31_Witness ==
  \E id \in Conns :
    /\ h[id].size = -2
    /\ h[id].pc = "send_header"
    /\ \A k \in 1..2 : h[id].wstate[k] = "done" /\ Len(h[id].spans[k]) = 1
    /\ h[id].requests[1] = << 2 >>
    /\ h[id].spans[1][1].request = << 2 >>

\* C32: a Flush in which the read of a sub-response failed returns an
\* error, whichever of the N reads it was.
C32_FlushReportsAnyFailedRead ==
  \A t \in Tasks :
    (cl[t].op = "flush" /\ cl[t].pc = "done" /\ cl[t].readFails > 0)
      => cl[t].err # "nil"

\* A Flush of two requests has returned: the reads of both sub-responses
\* failed, the first one before the last, and the error is returned.
C32_Witness ==
  \E t \in Tasks :
    /\ cl[t].op = "flush" /\ cl[t].pc = "done"
    /\ cl[t].count = 2
    /\ cl[t].readFails = 2
    /\ cl[t].err # "nil"

\* C33: a SendRecv that returns without error returns the response of the
\* server to the request it was called with, whatever calls of SendRecv and
\* Flush came before it or run beside it.
C33_OwnResponse ==
  \A t \in Tasks :
    (cl[t].op = "sendrecv" /\ cl[t].pc = "done" /\ cl[t].err = "nil")
      => cl[t].res = Respond(cl[t].req).res

\* C34: whenever a reader has read a negative top-level header H, the count
\* of the batch it goes on with is |H|, a positive number: count + H = 0,
\* for every H including -2^31.
C34_BatchCountIsAbsoluteValue ==
  [][\A id \in Conns :
       (/\ ~crashed
        /\ h[id].pc = "read"
        /\ Len(c2s[h[id].conn]) >= 4
        /\ Dec32(Take(c2s[h[id].conn], 4)) < 0
        /\ (h'[id].pc = "sub_size" \/ crashed'))
         => /\ h'[id].pc = "sub_size"
            /\ h'[id].count > 0
            /\ h'[id].count + Dec32(Take(c2s[h[id].conn], 4)) = 0
    ]_vars
====
